---- MODULE Spec2Model ----
(***************************************************************************)
(* Conversation graph and turn lifecycle of the AI-Chat client library.    *)
(*                                                                         *)
(*   Path          src/src/models/Path.ts   (turn state machine, step log) *)
(*   Node          src/src/models/Path.ts   (exchange node)                *)
(*   Conversation  src/unnamed/part_012     (graph/conversation.ts)        *)
(*   ChatSDK       src/src/sdk/ChatSDK.ts   (socket events onto the graph) *)
(*   TypingObserver src/src/interactions/typingObserver/TypingObserver.ts  *)
(*   SocketService src/src/sockets/SocketService.ts                        *)
(*                                                                         *)
(* Spec       the step log of one Path object under every interleaving of  *)
(*            calls of its public API made within one millisecond, with    *)
(*            withStep() suspended at its await.                           *)
(* SpecClock  the lifecycle timestamps of the same object while the clock  *)
(*            advances between calls, with one input per call.             *)
(* SpecGraph  one Conversation driven by user() and system() calls while   *)
(*            the clock advances.                                          *)
(* SpecAssist one Conversation driven by up to MaxCalls calls of user(),   *)
(*            system(), userQuick(), beginAssistantWork(),                 *)
(*            resolveAssistant(), failAssistant() and userAsync(), the     *)
(*            last one suspended at its await.                             *)
(* SpecRebuild a Conversation built live by user() and system(), or        *)
(*            returned by rebuildConversationFromShape (src/src/sdk/       *)
(*            rebuild.ts) or rebuildConversationFromTranscript (src/src/   *)
(*            models/Path.ts) for a row list of up to MaxRows rows.        *)
(* SpecSdk    one ChatSDK (src/src/sdk/ChatSDK.ts): up to MaxInFlight      *)
(*            sendText() calls and up to MaxEvents ai:token, ai:message    *)
(*            and ai:error events from the socket, in any order.           *)
(* SpecAsync  one Conversation driven by userAsync() calls only, up to      *)
(*            MaxSuspended of them suspended at their await at once.       *)
(* SpecSdkEvents  SpecSdk with ai:processing and chat:message events too.  *)
(* SpecModerated  SpecSdk for a ChatSDK constructed with opts.moderator.   *)
(* SpecTyping one TypingObserver under up to MaxActivity DOM events and    *)
(*            method calls, its timers firing in deadline order.           *)
(* SpecTypingLive  SpecTyping, where due timers do fire and time passes.   *)
(* SpecService one SocketService, its socket's connect and disconnect      *)
(*            events and up to MaxServerEvents events from the server.     *)
(***************************************************************************)
EXTENDS Integers, Sequences, FiniteSets, TLC

VARIABLES
  clock,      \* value returned by Date.now()
  process,    \* Path.process of the turn under test
  lastCall,   \* the most recent call made on the turn and how it completed
  pending,    \* withStep() invocations suspended at `await fn()`
  convo,      \* the Conversation object
  heap,       \* the Node objects allocated so far, by id
  idCounter,  \* number of ids handed out by makeId()
  lastOp,     \* the most recent call made on the conversation
  log,        \* names of the calls made on the conversation, in order
  awaiting,   \* userAsync() invocations suspended at `await fn(pair)`
  rebuilt,    \* the rebuild function that made convo, its rows, its lastPair
  sent,       \* payloads ChatSDK handed to socket.sendMessage, in order
  emitted,    \* events ChatSDK's emitter delivered to its listeners, in order
  received,   \* number of server events the socket passed to ChatSDK
  moderator,  \* opts.moderator given to ChatSDK's constructor
  observer,   \* the TypingObserver object, its timers and what it last emitted
  typing,     \* what the TypingObserver's listeners have seen so far
  service     \* the SocketService object and the socket it opened

vars ==
  <<clock, process, lastCall, pending, convo, heap, idCounter, lastOp, log,
    awaiting, rebuilt, sent, emitted, received, moderator, observer, typing,
    service>>
pathVars == <<process, lastCall, pending>>
sdkVars == <<sent, emitted, received, moderator>>
uiVars == <<observer, typing, service>>
graphVars == <<convo, heap, idCounter, lastOp, log, awaiting, rebuilt>>

\* ---------------------------------------------------------------- bounds
MaxTime == 3
MaxSteps == 2
MaxPending == 1
MaxNodes == 6
MaxCalls == 4
MaxRows == 3
MaxInFlight == 2
MaxSuspended == 2
MaxEvents == 3
MaxActivity == 4
MaxServerEvents == 2

\* ------------------------------------------------------- values and inputs
\* `undefined` in an optional number field (startedAt?, endedAt?, head?, tail?)
Undefined == -1

\* JavaScript truthiness of an optional number: undefined and 0 are falsy
Truthy(x) == x # Undefined /\ x # 0

\* an absent Record<string, any> argument or field
NoInfo == [present |-> FALSE, map |-> <<>>]
Info(m) == [present |-> TRUE, map |-> m]

StepNames == {"a"}
InfoArgs == {NoInfo, Info("k" :> "1" @@ "j" :> "1")}
ExtraArgs == {NoInfo, Info("k" :> "2")}
OkArgs == {"true", "false", "undefined"}
ErrorMessages == {"bad"}
Results == {"r"}

\* ------------------------------------------------------------------ Path
NewProcess(label) ==
  [label |-> label, status |-> "notStarted", startedAt |-> Undefined,
   endedAt |-> Undefined, steps |-> <<>>]

\* the spread written the other way round: { ...extra, ...(s.info ?? {}) }
MergeInfo_oldWins(old, extra) ==
  [k \in (DOMAIN old) \cup (DOMAIN extra) |->
     IF k \in DOMAIN old THEN old[k] ELSE extra[k]]

\* { ...(s.info ?? {}), ...extra }
MergeInfo(old, extra) ==
  [k \in (DOMAIN old) \cup (DOMAIN extra) |->
     IF k \in DOMAIN extra THEN extra[k] ELSE old[k]]

\* ensureQueued without its status guard
ensureQueued_unguarded(p, t) ==
  [p EXCEPT !.status = "queued", !.startedAt = t]

ensureQueued(p, t) ==
  IF p.status = "notStarted"
    THEN [p EXCEPT !.status = "queued", !.startedAt = t]
    ELSE p

ensureRunning(p, t) ==
  LET q == IF p.status = "notStarted" THEN ensureQueued(p, t) ELSE p
  IN IF q.status = "queued"
       THEN [q EXCEPT !.status = "running",
                      !.startedAt = IF @ = Undefined THEN t ELSE @]
       ELSE q

\* closeOpenStep that returns before closing anything
closeOpenStep_returnsEarly(p, ok, extra, t) == p

closeOpenStep(p, ok, extra, t) ==
  LET n == Len(p.steps)
  IN IF n = 0 \/ Truthy(p.steps[n].endedAt)
       THEN p
       ELSE [p EXCEPT !.steps[n] =
               [@ EXCEPT !.endedAt = t,
                         !.ok = IF ok # "undefined" THEN ok ELSE @,
                         !.info = IF extra.present
                                    THEN Info(MergeInfo(@.map, extra.map))
                                    ELSE @]]

start(p, t) == ensureQueued(p, t)

running(p, t) == ensureRunning(p, t)

\* step that closes the previous step as a success: closeOpenStep(true)
step_closesAsOk(p, name, info, t) ==
  LET q == closeOpenStep(ensureRunning(p, t), "true", NoInfo, t)
  IN [q EXCEPT !.steps = Append(@, [name |-> name, startedAt |-> t,
                                     endedAt |-> Undefined, ok |-> "undefined",
                                     info |-> info])]

step(p, name, info, t) ==
  LET q == closeOpenStep(ensureRunning(p, t), "undefined", NoInfo, t)
  IN [q EXCEPT !.steps = Append(@, [name |-> name, startedAt |-> t,
                                     endedAt |-> Undefined, ok |-> "undefined",
                                     info |-> info])]

\* endStep(ok = true, extra?): an omitted ok takes the default
endStep(p, ok, extra, t) ==
  closeOpenStep(p, IF ok = "undefined" THEN "true" ELSE ok, extra, t)

\* done that forgets the open step
done_leavesStepOpen(p, t) == [p EXCEPT !.status = "done", !.endedAt = t]

done(p, t) ==
  closeOpenStep([p EXCEPT !.status = "done", !.endedAt = t], "true", NoInfo, t)

\* error that logs the 'error' step without closing it
error_leavesErrorStepOpen(p, info, t) ==
  LET q == closeOpenStep([p EXCEPT !.status = "error", !.endedAt = t],
                         "false", NoInfo, t)
  IN IF info.present THEN step(q, "error", info, t) ELSE q

error(p, info, t) ==
  LET q == closeOpenStep([p EXCEPT !.status = "error", !.endedAt = t],
                         "false", NoInfo, t)
  IN IF info.present
       THEN endStep(step(q, "error", info, t), "false", NoInfo, t)
       ELSE q

\* totalMs that always measures up to now()
totalMs_ignoresEndedAt(p, t) ==
  LET s == IF p.startedAt # Undefined THEN p.startedAt ELSE t
  IN IF t - s > 0 THEN t - s ELSE 0

totalMs(p, t) ==
  LET s == IF p.startedAt # Undefined THEN p.startedAt ELSE t
      e == IF p.endedAt # Undefined THEN p.endedAt ELSE t
  IN IF e - s > 0 THEN e - s ELSE 0

\* ------------------------------------------------------------------ Node
\* an absent options argument or field
NoOptions == <<>>
\* an absent message argument
NoMessage == "<undefined>"
\* JavaScript truthiness of an optional string: undefined and "" are falsy
TruthyText(m) == m # NoMessage /\ m # ""

Messages == {"", "hi"}
OptionArgs == {NoOptions, <<"opt">>}

NoContent ==
  [present |-> FALSE, message |-> "", options |-> NoOptions,
   timestamp |-> Undefined]

NewNode(id, type, status, t) ==
  [id |-> id, createdAt |-> t, type |-> type, status |-> status,
   content |-> NoContent, previous |-> Undefined, next |-> Undefined]

\* setContent that leaves status alone
setContent_keepsStatus(n, message, options, t) ==
  [n EXCEPT !.content = [present |-> TRUE, message |-> message,
                         options |-> options, timestamp |-> t]]

setContent(n, message, options, t) ==
  [n EXCEPT !.content = [present |-> TRUE, message |-> message,
                         options |-> options, timestamp |-> t],
            !.status = "ready"]

\* ---------------------------------------------------------- Conversation
\* A graph value g holds the Conversation object (g.c) and the Node objects
\* it refers to (g.h, by id).
NewPath(id, fromId, toId, label, t) ==
  [id |-> id, createdAt |-> t, fromId |-> fromId, toId |-> toId,
   process |-> NewProcess(label)]

NewConversation ==
  [head |-> Undefined, tail |-> Undefined, nodes |-> <<>>, paths |-> <<>>,
   byId |-> {}]

Alloc(g, n) == [g EXCEPT !.h = @ @@ (n.id :> n)]

\* track that pushes the node without indexing it
track_withoutIndex(g, id) == [g EXCEPT !.c.nodes = Append(@, id)]

track(g, id) ==
  [g EXCEPT !.c.nodes = Append(@, id), !.c.byId = @ \cup {id}]

\* link(a, b, pathLabel) that forgets a.next
link_withoutNext(g, a, b, pathLabel, pid, t) ==
  LET p == NewPath(pid, a, b, pathLabel, t)
  IN [g EXCEPT !.h[b].previous = a,
               !.c.paths = Append(@, [p EXCEPT !.process = start(@, t)])]

link(g, a, b, pathLabel, pid, t) ==
  LET p == NewPath(pid, a, b, pathLabel, t)
  IN [g EXCEPT !.h[a].next = b,
               !.h[b].previous = a,
               !.c.paths = Append(@, [p EXCEPT !.process = start(@, t)])]

\* system(message?) that labels its link as user() does
system_mislabelsLink(g, message, id0, t) ==
  LET sys == id0 + 1
      g1 == Alloc(g, NewNode(sys, "system", "notStarted", t))
      g2 == IF g1.c.head = Undefined THEN [g1 EXCEPT !.c.head = sys] ELSE g1
      g3 == IF g2.c.tail # Undefined
              THEN link(g2, g2.c.tail, sys, "user-link", id0 + 2, t)
              ELSE g2
      g4 == [g3 EXCEPT !.c.tail = sys]
      g5 == IF TruthyText(message)
              THEN [g4 EXCEPT !.h[sys] = setContent(@, message, NoOptions, t)]
              ELSE g4
  IN track(g5, sys)

\* system(message?): the ids id0+1 (node) and id0+2 (path) are fresh
system(g, message, id0, t) ==
  LET sys == id0 + 1
      g1 == Alloc(g, NewNode(sys, "system", "notStarted", t))
      g2 == IF g1.c.head = Undefined THEN [g1 EXCEPT !.c.head = sys] ELSE g1
      g3 == IF g2.c.tail # Undefined
              THEN link(g2, g2.c.tail, sys, "system-link", id0 + 2, t)
              ELSE g2
      g4 == [g3 EXCEPT !.c.tail = sys]
      g5 == IF TruthyText(message)
              THEN [g4 EXCEPT !.h[sys] = setContent(@, message, NoOptions, t)]
              ELSE g4
  IN track(g5, sys)

\* user(message, options?) that forgets to link the previous tail
user_withoutTailLink(g, message, options, id0, t) ==
  LET usr == id0 + 1
      sys == id0 + 3
      g1 == Alloc(g, setContent(NewNode(usr, "user", "processing", t),
                                message, options, t))
      g2 == IF g1.c.head = Undefined THEN [g1 EXCEPT !.c.head = usr] ELSE g1
      g4 == track([g2 EXCEPT !.c.tail = usr], usr)
      g5 == Alloc(g4, NewNode(sys, "system", "notStarted", t))
      g6 == link(g5, usr, sys, "assistant-reply", id0 + 4, t)
  IN track([g6 EXCEPT !.c.tail = sys], sys)

\* user(message, options?): the ids id0+1 (initiator node), id0+2 (link path),
\* id0+3 (responder node) and id0+4 (reply path) are fresh
user(g, message, options, id0, t) ==
  LET usr == id0 + 1
      sys == id0 + 3
      g1 == Alloc(g, setContent(NewNode(usr, "user", "processing", t),
                                message, options, t))
      g2 == IF g1.c.head = Undefined THEN [g1 EXCEPT !.c.head = usr] ELSE g1
      g3 == IF g2.c.tail # Undefined
              THEN link(g2, g2.c.tail, usr, "user-link", id0 + 2, t)
              ELSE g2
      g4 == track([g3 EXCEPT !.c.tail = usr], usr)
      g5 == Alloc(g4, NewNode(sys, "system", "notStarted", t))
      g6 == link(g5, usr, sys, "assistant-reply", id0 + 4, t)
  IN track([g6 EXCEPT !.c.tail = sys], sys)

\* a Pair {user, system, path}, held by the ids of its three objects
Pair(usr, sys, path) == [user |-> usr, system |-> sys, path |-> path]
\* `undefined` where a Pair is expected
NoPair == Pair(Undefined, Undefined, Undefined)

\* pair.path is one of the Path objects of conversation.paths
PathIndex(c, pid) == CHOOSE i \in 1..Len(c.paths) : c.paths[i].id = pid
ProcessOf(g, pair) == g.c.paths[PathIndex(g.c, pair.path)].process
SetProcess(g, pair, p) ==
  [g EXCEPT !.c.paths[PathIndex(g.c, pair.path)].process = p]

beginAssistantWork(g, pair, stepInfo, t) ==
  SetProcess(g, pair, step(ProcessOf(g, pair), "work:begin", stepInfo, t))

\* resolveAssistant that drops info
resolveAssistant_dropsInfo(g, pair, reply, info, t) ==
  LET g1 == [g EXCEPT !.h[pair.system] = setContent(@, reply, NoOptions, t)]
  IN SetProcess(g1, pair, done(ProcessOf(g1, pair), t))

resolveAssistant(g, pair, reply, info, t) ==
  LET g1 == [g EXCEPT !.h[pair.system] = setContent(@, reply, NoOptions, t)]
      p1 == IF info.present
              THEN endStep(ProcessOf(g1, pair), "true", info, t)
              ELSE ProcessOf(g1, pair)
  IN SetProcess(g1, pair, done(p1, t))

DefaultErrorMessage == "An error occurred."

\* failAssistant that does not re-mark the node after setContent
failAssistant_leavesReady(g, pair, errorInfo, t) ==
  LET g1 == [g EXCEPT !.h[pair.system].status = "error"]
      g2 == IF ~g1.h[pair.system].content.present
              THEN [g1 EXCEPT !.h[pair.system] =
                      setContent(@, DefaultErrorMessage, NoOptions, t)]
              ELSE g1
  IN SetProcess(g2, pair, error(ProcessOf(g2, pair), errorInfo, t))

failAssistant(g, pair, errorInfo, t) ==
  LET g1 == [g EXCEPT !.h[pair.system].status = "error"]
      g2 == IF ~g1.h[pair.system].content.present
              THEN [g1 EXCEPT !.h[pair.system] =
                      [setContent(@, DefaultErrorMessage, NoOptions, t)
                         EXCEPT !.status = "error"]]
              ELSE g1
  IN SetProcess(g2, pair, error(ProcessOf(g2, pair), errorInfo, t))

lastPair(g) ==
  LET n == Len(g.c.paths)
      p == g.c.paths[n]
  IN IF n = 0 THEN NoPair
     ELSE IF ~Truthy(p.fromId) \/ ~Truthy(p.toId) THEN NoPair
     ELSE IF p.fromId \notin g.c.byId \/ p.toId \notin g.c.byId THEN NoPair
     ELSE Pair(p.fromId, p.toId, p.id)

userQuick(g, message, reply, options, id0, t) ==
  resolveAssistant(user(g, message, options, id0, t),
                   Pair(id0 + 1, id0 + 3, id0 + 4), reply, NoInfo, t)

\* chain(): the nodes met from head by following next; a walk that has not
\* ended after every node was met once (a cycle) is cut one node later
RECURSIVE chainFrom(_, _, _)
chainFrom(h, n, fuel) ==
  IF n = Undefined \/ fuel = 0 THEN <<>>
  ELSE <<n>> \o chainFrom(h, h[n].next, fuel - 1)

chain(g) == chainFrom(g.h, g.c.head, Cardinality(DOMAIN g.h) + 1)

\* ---------------------------------------------------------------- rebuild
\* One side of a row: Msg { message, options?, timestamp? } of the persisted
\* shape, Tuple [message, timestampMs] of the transcript; NoSide when the row
\* has no such field.
NoSide ==
  [present |-> FALSE, message |-> "", timestamp |-> Undefined,
   options |-> NoOptions]
Side(message, timestamp) ==
  [present |-> TRUE, message |-> message, timestamp |-> timestamp,
   options |-> NoOptions]
\* status is "undefined" when the row has none
Row(usr, sys, status) == [user |-> usr, system |-> sys, status |-> status]

\* the loop state: the conversation, the local lastPair, the ids handed out
Rebuilding(g, pair, ids) == [g |-> g, lastPair |-> pair, ids |-> ids]
RebuildStart ==
  Rebuilding([c |-> NewConversation, h |-> <<>>], NoPair, 0)

\* convo.tail = undefined
ClearTail(g) == [g EXCEPT !.c.tail = Undefined]
\* convo.tail = savedTail ?? node
RestoreTail(g, savedTail, node) ==
  [g EXCEPT !.c.tail = IF savedTail # Undefined THEN savedTail ELSE node]
\* if (node.content && override) node.content.timestamp = timestamp
OverrideTimestamp(g, id, override, timestamp) ==
  IF g.h[id].content.present /\ override
    THEN [g EXCEPT !.h[id].content.timestamp = timestamp]
    ELSE g

\* the same without clearing tail first
RebuildPair_keepsTail(g, side, override, id0, t) ==
  OverrideTimestamp(user(g, side.message, side.options, id0, t),
                    id0 + 1, override, side.timestamp)

\* convo.user(message, options) with tail cleared, the initiator timestamp
\* overridden by the row's, and tail put back
RebuildPair(g, side, override, id0, t) ==
  RestoreTail(
    OverrideTimestamp(user(ClearTail(g), side.message, side.options, id0, t),
                      id0 + 1, override, side.timestamp),
    g.c.tail, id0 + 3)

\* convo.system(message) with tail cleared and put back, then the timestamp
RebuildSystem(g, side, override, id0, t) ==
  OverrideTimestamp(
    RestoreTail(system(ClearTail(g), side.message, id0, t), g.c.tail, id0 + 1),
    id0 + 1, override, side.timestamp)

\* node.setContent(message, options), then the timestamp
RebuildContent(g, id, side, override, t) ==
  OverrideTimestamp(
    [g EXCEPT !.h[id] = setContent(@, side.message, side.options, t)],
    id, override, side.timestamp)

\* a row with both sides: the pair's path is written as done and gets one
\* closed 'rebuild' step
CompletePair_leavesStepOpen(g, pair, startedAt, endedAt, stepStartedAt, info) ==
  SetProcess(g, pair,
    [ProcessOf(g, pair) EXCEPT
       !.startedAt = startedAt, !.endedAt = endedAt, !.status = "done",
       !.steps = Append(@, [name |-> "rebuild", startedAt |-> stepStartedAt,
                            endedAt |-> Undefined, ok |-> "undefined",
                            info |-> Info(info)])])
CompletePair(g, pair, startedAt, endedAt, stepStartedAt, info) ==
  SetProcess(g, pair,
    [ProcessOf(g, pair) EXCEPT
       !.startedAt = startedAt, !.endedAt = endedAt, !.status = "done",
       !.steps = Append(@, [name |-> "rebuild", startedAt |-> stepStartedAt,
                            endedAt |-> endedAt, ok |-> "true",
                            info |-> Info(info)])])

\* steps.push({ name: "rebuild", startedAt: process.startedAt, info })
PushOpenRebuildStep(p, info) ==
  [p EXCEPT !.steps = Append(@, [name |-> "rebuild", startedAt |-> p.startedAt,
                                 endedAt |-> Undefined, ok |-> "undefined",
                                 info |-> Info(info)])]

\* switch (row.status)
ApplyRowStatus_alwaysQueued(p, status, t) == start(p, t)
ApplyRowStatus(p, status, t) ==
  CASE status = "queued" -> start(p, t)
    [] status = "running" -> running(p, t)
    [] status = "done" -> done(p, t)
    [] status = "error" -> error(p, NoInfo, t)
    [] OTHER -> start(p, t)

\* steps.find(rebuild step still open) ?? steps.find(rebuild step); 0: none
FindRebuildStep(steps) ==
  LET all == {k \in 1..Len(steps) : steps[k].name = "rebuild"}
      open == {k \in all : steps[k].endedAt = Undefined}
  IN IF open # {} THEN CHOOSE k \in open : \A j \in open : k <= j
     ELSE IF all # {} THEN CHOOSE k \in all : \A j \in all : k <= j
     ELSE 0

\* the found 'rebuild' step is closed at sTs, or a closed one is pushed
CloseRebuildStep_alwaysPushes(p, k, sTs, extra) ==
  [p EXCEPT !.steps =
     Append(@, [name |-> "rebuild", startedAt |-> sTs, endedAt |-> sTs,
                ok |-> "true", info |-> Info(extra)])]
CloseRebuildStep(p, k, sTs, extra) ==
  IF k # 0
    THEN [p EXCEPT !.steps[k] =
            [@ EXCEPT !.startedAt = sTs, !.endedAt = sTs, !.ok = "true",
                      !.info = Info(MergeInfo(@.map, extra))]]
    ELSE [p EXCEPT !.steps =
            Append(@, [name |-> "rebuild", startedAt |-> sTs, endedAt |-> sTs,
                       ok |-> "true", info |-> Info(extra)])]

\* a system-only row while lastPair is set: its path is written as done at sTs
FinishLastPair(g, pair, sTs, extra) ==
  SetProcess(g, pair,
    CloseRebuildStep(
      [ProcessOf(g, pair) EXCEPT
         !.startedAt = sTs, !.endedAt = sTs, !.status = "done"],
      FindRebuildStep(ProcessOf(g, pair).steps), sTs, extra))

\* a user-only row of the shape format
ShapePending(g, pair, startedAt, status, i, t) ==
  SetProcess(g, pair,
    PushOpenRebuildStep(
      ApplyRowStatus([ProcessOf(g, pair) EXCEPT !.startedAt = startedAt],
                     status, t),
      "i" :> i @@
      "status" :> (IF status = "undefined" THEN "queued" ELSE status)))

\* one iteration of rebuildConversationFromShape's loop, on rows[i]
shapeRow(st, row, i, t) ==
  LET hasU == row.user.present /\ TruthyText(row.user.message)
      hasS == row.system.present /\ TruthyText(row.system.message)
      pair == Pair(st.ids + 1, st.ids + 3, st.ids + 4)
      uTs == IF row.user.timestamp # Undefined THEN row.user.timestamp ELSE t
      sTs == IF row.system.timestamp # Undefined THEN row.system.timestamp
             ELSE t
  IN IF hasU /\ hasS
       THEN Rebuilding(
              CompletePair(
                RebuildContent(
                  RebuildPair(st.g, row.user, Truthy(row.user.timestamp),
                              st.ids, t),
                  pair.system, row.system, Truthy(row.system.timestamp), t),
                pair, uTs,
                IF row.system.timestamp # Undefined THEN row.system.timestamp
                ELSE uTs,
                uTs, "i" :> i),
              pair, st.ids + 4)
     ELSE IF hasU
       THEN Rebuilding(
              ShapePending(
                RebuildPair(st.g, row.user, Truthy(row.user.timestamp),
                            st.ids, t),
                pair, uTs, row.status, i, t),
              pair, st.ids + 4)
     ELSE IF hasS /\ st.lastPair # NoPair
       THEN Rebuilding(
              FinishLastPair(
                RebuildContent(st.g, st.lastPair.system, row.system,
                               Truthy(row.system.timestamp), t),
                st.lastPair, sTs, "i" :> i),
              st.lastPair, st.ids)
     ELSE IF hasS
       THEN Rebuilding(
              RebuildSystem(st.g, row.system, Truthy(row.system.timestamp),
                            st.ids, t),
              st.lastPair, st.ids + 2)
     ELSE st

RECURSIVE shapeLoop(_, _, _)
shapeLoop(rows, n, t) ==
  IF n = 0 THEN RebuildStart
  ELSE shapeRow(shapeLoop(rows, n - 1, t), rows[n], n - 1, t)

rebuildConversationFromShape(rows, t) == shapeLoop(rows, Len(rows), t).g

Min_first(a, b) == a
Min(a, b) == IF a <= b THEN a ELSE b

\* a user-only row of the transcript format
TranscriptPending(g, pair, uTs, info) ==
  SetProcess(g, pair,
    PushOpenRebuildStep(
      [ProcessOf(g, pair) EXCEPT !.startedAt = uTs, !.status = "queued"],
      info))

\* one iteration of rebuildConversationFromTranscript's forEach, on _Rows[index]
transcriptRow_emptyRowForgetsPair(st, row, index, t) ==
  LET hasUser == row.user.present
      hasSystem == row.system.present
      pair == Pair(st.ids + 1, st.ids + 3, st.ids + 4)
      uTs == row.user.timestamp
      sTs == row.system.timestamp
      imported == "imported" :> TRUE @@ "index" :> index
  IN IF hasUser /\ hasSystem
       THEN Rebuilding(
              CompletePair(
                RebuildContent(RebuildPair(st.g, row.user, TRUE, st.ids, t),
                               pair.system, row.system, TRUE, t),
                pair, Min(uTs, sTs), sTs, uTs, imported),
              pair, st.ids + 4)
     ELSE IF hasUser
       THEN Rebuilding(
              TranscriptPending(RebuildPair(st.g, row.user, TRUE, st.ids, t),
                                pair, uTs, imported),
              pair, st.ids + 4)
     ELSE IF hasSystem /\ st.lastPair # NoPair
       THEN Rebuilding(
              FinishLastPair(
                RebuildContent(st.g, st.lastPair.system, row.system, TRUE, t),
                st.lastPair, sTs, imported),
              st.lastPair, st.ids)
     ELSE IF hasSystem
       THEN Rebuilding(RebuildSystem(st.g, row.system, TRUE, st.ids, t),
                       st.lastPair, st.ids + 2)
     ELSE Rebuilding(st.g, NoPair, st.ids)
transcriptRow(st, row, index, t) ==
  LET hasUser == row.user.present
      hasSystem == row.system.present
      pair == Pair(st.ids + 1, st.ids + 3, st.ids + 4)
      uTs == row.user.timestamp
      sTs == row.system.timestamp
      imported == "imported" :> TRUE @@ "index" :> index
  IN IF hasUser /\ hasSystem
       THEN Rebuilding(
              CompletePair(
                RebuildContent(RebuildPair(st.g, row.user, TRUE, st.ids, t),
                               pair.system, row.system, TRUE, t),
                pair, Min(uTs, sTs), sTs, uTs, imported),
              pair, st.ids + 4)
     ELSE IF hasUser
       THEN Rebuilding(
              TranscriptPending(RebuildPair(st.g, row.user, TRUE, st.ids, t),
                                pair, uTs, imported),
              pair, st.ids + 4)
     ELSE IF hasSystem /\ st.lastPair # NoPair
       THEN Rebuilding(
              FinishLastPair(
                RebuildContent(st.g, st.lastPair.system, row.system, TRUE, t),
                st.lastPair, sTs, imported),
              st.lastPair, st.ids)
     ELSE IF hasSystem
       THEN Rebuilding(RebuildSystem(st.g, row.system, TRUE, st.ids, t),
                       st.lastPair, st.ids + 2)
     ELSE st

RECURSIVE transcriptLoop(_, _, _)
transcriptLoop(rows, n, t) ==
  IF n = 0 THEN RebuildStart
  ELSE transcriptRow(transcriptLoop(rows, n - 1, t), rows[n], n - 1, t)

rebuildConversationFromTranscript(rows, t) ==
  transcriptLoop(rows, Len(rows), t).g

\* if (node?.content?.message) side = [message, content.timestamp ?? createdAt]
DumpSide_usesCreatedAt(g, id) ==
  IF id \in DOMAIN g.h /\ g.h[id].content.present
       /\ TruthyText(g.h[id].content.message)
    THEN Side(g.h[id].content.message, g.h[id].createdAt)
    ELSE NoSide
DumpSide(g, id) ==
  IF id \in DOMAIN g.h /\ g.h[id].content.present
       /\ TruthyText(g.h[id].content.message)
    THEN Side(g.h[id].content.message,
              IF g.h[id].content.timestamp # Undefined
                THEN g.h[id].content.timestamp ELSE g.h[id].createdAt)
    ELSE NoSide

\* the _Row dumpTranscript makes of one path
DumpRow(g, path) ==
  Row(DumpSide(g, path.fromId), DumpSide(g, path.toId), "undefined")

\* dumpTranscript's loop over the first n paths
RECURSIVE dumpLoop(_, _)
dumpLoop(g, n) ==
  IF n = 0 THEN <<>>
  ELSE IF g.c.paths[n].process.label # "assistant-reply"
    THEN dumpLoop(g, n - 1)
  ELSE IF DumpRow(g, g.c.paths[n]).user.present
          \/ DumpRow(g, g.c.paths[n]).system.present
    THEN Append(dumpLoop(g, n - 1), DumpRow(g, g.c.paths[n]))
  ELSE dumpLoop(g, n - 1)

dumpTranscript(g) == dumpLoop(g, Len(g.c.paths))

\* ---------------------------------------------------------------- ChatSDK
\* ModeratorConfig: a pipeline of steps, each named by what it decides
NoModerator == [present |-> FALSE, pipeline |-> <<>>]
Moderator(pipeline) == [present |-> TRUE, pipeline |-> pipeline]
Decision(action, text, reason) ==
  [action |-> action, text |-> text, reason |-> reason]
\* a ModerationStep applied to the current text
Decide(stepName, text) ==
  CASE stepName = "allow" -> Decision("allow", text, NoMessage)
    [] stepName = "modify" -> Decision("modify", "***", "masked")
    [] stepName = "block" -> Decision("block", text, "banned")

\* runModeration's loop from the k-th step on
RECURSIVE RunPipeline(_, _, _)
RunPipeline(pipe, k, current) ==
  IF k > Len(pipe) THEN Decision("allow", current, NoMessage)
  ELSE IF Decide(pipe[k], current).action = "block"
    THEN Decide(pipe[k], current)
  ELSE IF Decide(pipe[k], current).action = "modify"
    THEN RunPipeline(pipe, k + 1, Decide(pipe[k], current).text)
  ELSE RunPipeline(pipe, k + 1, current)

\* `(this as any).opts`: the constructor reads its parameter opts and never
\* assigns a field of that name, so the property is undefined
ThisOpts == [present |-> FALSE, moderator |-> NoModerator]

\* runModeration(text): cfg = this.opts?.moderator; without a pipeline the
\* text is allowed as it is
runModeration(thisOpts, text) ==
  IF ~thisOpts.present \/ ~thisOpts.moderator.present
       \/ thisOpts.moderator.pipeline = <<>>
    THEN [action |-> "allow", text |-> text]
    ELSE [action |-> RunPipeline(thisOpts.moderator.pipeline, 1, text).action,
          text |-> RunPipeline(thisOpts.moderator.pipeline, 1, text).text]

\* sendText, step 2: conversation.user(finalText); beginAssistantWork(pair)
sendText(g, finalText, id0, t) ==
  beginAssistantWork(user(g, finalText, NoOptions, id0, t),
                     Pair(id0 + 1, id0 + 3, id0 + 4),
                     Info("source" :> "client"), t)

\* the payload of socket.sendMessage: requestId: extra?.requestId ?? path.id
Payload(pair, text, requestId) ==
  [messageId |-> pair.user, text |-> text,
   requestId |-> IF requestId # Undefined THEN requestId ELSE pair.path]

\* an event handed to the listeners of ChatSDK's emitter
Emitted(event, id, text, cumulative) ==
  [event |-> event, id |-> id, text |-> text, cumulative |-> cumulative]
\* emitUpdate(changed): queueMicrotask(() => emit("conversation:update"))
ConversationUpdate(pair) ==
  Emitted("conversation:update", pair.path, NoMessage, NoMessage)

\* e.token ?? ""
TokenText(token) == IF token = NoMessage THEN "" ELSE token
\* pair.system.content?.message ?? ""
ContentMessage(n) == IF n.content.present THEN n.content.message ELSE ""
\* next = prev + (e.token ?? "")
Cumulative(g, pair, token) ==
  ContentMessage(g.h[pair.system]) \o TokenText(token)

\* onAIToken that keeps the latest token only
onAIToken_replaces(g, pair, e, t) ==
  [SetProcess(g, pair, running(ProcessOf(g, pair), t))
     EXCEPT !.h[pair.system] =
       setContent(@, TokenText(e.token), @.content.options, t)]

\* onAIToken, for the pair lastPair() gave
onAIToken(g, pair, e, t) ==
  [SetProcess(g, pair, running(ProcessOf(g, pair), t))
     EXCEPT !.h[pair.system] =
       setContent(@, Cumulative(g, pair, e.token), @.content.options, t)]

\* Date.parse of the ISO strings the server sends
DateParse(iso) == CASE iso = "1970-01-01T00:00:00.007Z" -> 7

\* if (pair.system.content && e.createdAt) content.timestamp = Date.parse(..)
StampContent(g, id, createdAt) ==
  IF g.h[id].content.present /\ TruthyText(createdAt)
    THEN [g EXCEPT !.h[id].content.timestamp = DateParse(createdAt)]
    ELSE g

\* onAIMessage, for the pair lastPair() gave
onAIMessage(g, pair, e, t) ==
  resolveAssistant(
    StampContent(
      [SetProcess(g, pair,
                  endStep(ProcessOf(g, pair), "true",
                          Info("usage" :> e.usage), t))
         EXCEPT !.h[pair.system] = setContent(@, e.text, e.options, t)],
      pair.system, e.createdAt),
    pair, e.text, Info("usage" :> e.usage), t)

\* String(s ?? "")
StringOf(s) == IF s = NoMessage THEN "" ELSE s
\* toLowerCase() of the status strings a server sends
ToLowerCase(str) ==
  CASE str = "Retrying" -> "retrying"
    [] str = "DONE" -> "done"
    [] OTHER -> str

\* defaultMapStatus
defaultMapStatus(status) ==
  CASE ToLowerCase(StringOf(status)) = "queued" -> "queued"
    [] ToLowerCase(StringOf(status)) \in {"working", "retrying", "running"}
         -> "running"
    [] ToLowerCase(StringOf(status)) = "done" -> "done"
    [] ToLowerCase(StringOf(status)) \in {"error", "failed"} -> "error"
    [] OTHER -> "running"

\* if (to === "queued") path.start(); else if ... path.error({ reason })
ApplyMappedStatus(p, to, reason, t) ==
  CASE to = "queued" -> start(p, t)
    [] to = "running" -> running(p, t)
    [] to = "done" -> done(p, t)
    [] to = "error" -> error(p, Info("reason" :> reason), t)
    [] OTHER -> p

\* onAIProcessing, for the pair lastPair() gave
onAIProcessing(g, pair, e, t) ==
  SetProcess(g, pair,
    endStep(
      step(ApplyMappedStatus(ProcessOf(g, pair), defaultMapStatus(e.status),
                             e.reason, t),
           "server:processing",
           Info("status" :> e.status @@ "requestId" :> e.requestId), t),
      "true", NoInfo, t))

\* the 'status:change' event: { pathId, from: prev, to, meta: e }
StatusChange(pathId, from, to) ==
  [event |-> "status:change", id |-> pathId, text |-> NoMessage,
   cumulative |-> NoMessage, from |-> from, to |-> to]

\* onChatMessage: conversation.system(e.text), stamped with e.createdAt
onChatMessage(g, e, id0, t) ==
  StampContent(system(g, e.text, id0, t), id0 + 1, e.createdAt)

\* onAIError, for the pair lastPair() gave: failAssistant(pair, e)
onAIError(g, pair, e, t) ==
  failAssistant(g, pair,
                Info("message" :> e.message @@ "requestId" :> e.requestId), t)

\* --------------------------------------------------- calls on the one turn
\* op: the method; idx: the step a withStep() invocation opened;
\* kind, value: what a withStep() invocation gave back to its caller
Call(op) == [op |-> op, idx |-> 0, kind |-> "none", value |-> ""]
Completed(op, idx, kind, value) ==
  [op |-> op, idx |-> idx, kind |-> kind, value |-> value]

\* time passes between calls
TickTo(max) ==
  /\ clock < max
  /\ clock' = clock + 1
  /\ UNCHANGED <<pathVars, graphVars, sdkVars, uiVars>>

Tick == TickTo(MaxTime)

CallStart ==
  /\ process' = start(process, clock)
  /\ lastCall' = Call("start")
  /\ UNCHANGED <<clock, pending, graphVars, sdkVars, uiVars>>

CallRunning ==
  /\ process' = running(process, clock)
  /\ lastCall' = Call("running")
  /\ UNCHANGED <<clock, pending, graphVars, sdkVars, uiVars>>

StepWith(name, info) ==
  /\ Len(process.steps) < MaxSteps
  /\ process' = step(process, name, info, clock)
  /\ lastCall' = Call("step")
  /\ UNCHANGED <<clock, pending, graphVars, sdkVars, uiVars>>

CallStep == \E name \in StepNames, info \in InfoArgs : StepWith(name, info)

EndStepWith(ok, extra) ==
  /\ process' = endStep(process, ok, extra, clock)
  /\ lastCall' = Call("endStep")
  /\ UNCHANGED <<clock, pending, graphVars, sdkVars, uiVars>>

CallEndStep == \E ok \in OkArgs, extra \in ExtraArgs : EndStepWith(ok, extra)

CallDone ==
  /\ process' = done(process, clock)
  /\ lastCall' = Call("done")
  /\ UNCHANGED <<clock, pending, graphVars, sdkVars, uiVars>>

ErrorWith(info) ==
  /\ info.present => Len(process.steps) < MaxSteps
  /\ process' = error(process, info, clock)
  /\ lastCall' = Call(IF info.present THEN "error(info)" ELSE "error()")
  /\ UNCHANGED <<clock, pending, graphVars, sdkVars, uiVars>>

CallError == \E info \in InfoArgs : ErrorWith(info)

\* withStep(name, fn, info) up to `await fn()`: fn returned a value or a
\* promise, and the continuation is suspended until that settles
WithStepCallWith(name, info) ==
  /\ Len(process.steps) < MaxSteps
  /\ Cardinality(pending) < MaxPending
  /\ process' = step(process, name, info, clock)
  /\ pending' = pending \cup {Len(process.steps) + 1}
  /\ lastCall' = Completed("withStep", Len(process.steps) + 1, "none", "")
  /\ UNCHANGED <<clock, graphVars, sdkVars, uiVars>>

WithStepCall ==
  \E name \in StepNames, info \in InfoArgs : WithStepCallWith(name, info)

\* withStep(name, fn, info) when fn throws synchronously: the catch block runs
\* inside the call and the error is thrown on to the caller
WithStepThrowWith(name, info, e) ==
  /\ Len(process.steps) < MaxSteps
  /\ process' = endStep(step(process, name, info, clock), "false",
                        Info("error" :> e), clock)
  /\ lastCall' = Completed("withStep:throw", Len(process.steps) + 1, "thrown", e)
  /\ UNCHANGED <<clock, pending, graphVars, sdkVars, uiVars>>

WithStepThrow ==
  \E name \in StepNames, info \in InfoArgs, e \in ErrorMessages :
    WithStepThrowWith(name, info, e)

\* the continuation of the withStep() that opened step i, fn having resolved to r
WithStepResolveWith(i, r) ==
  /\ i \in pending
  /\ process' = endStep(process, "true", NoInfo, clock)
  /\ pending' = pending \ {i}
  /\ lastCall' = Completed("withStep:resolve", i, "returned", r)
  /\ UNCHANGED <<clock, graphVars, sdkVars, uiVars>>

WithStepResolve == \E i \in pending, r \in Results : WithStepResolveWith(i, r)

\* the catch block closing the step as a success
WithStepRejectWith_closesAsOk(i, e) ==
  /\ i \in pending
  /\ process' = endStep(process, "true", Info("error" :> e), clock)
  /\ pending' = pending \ {i}
  /\ lastCall' = Completed("withStep:reject", i, "thrown", e)
  /\ UNCHANGED <<clock, graphVars, sdkVars, uiVars>>

\* the continuation of the withStep() that opened step i, fn having rejected
\* with an error whose message is e
WithStepRejectWith(i, e) ==
  /\ i \in pending
  /\ process' = endStep(process, "false", Info("error" :> e), clock)
  /\ pending' = pending \ {i}
  /\ lastCall' = Completed("withStep:reject", i, "thrown", e)
  /\ UNCHANGED <<clock, graphVars, sdkVars, uiVars>>

WithStepReject ==
  \E i \in pending, e \in ErrorMessages : WithStepRejectWith(i, e)

\* -------------------------------------------- calls on the conversation
\* op: the method; user, system, path: the ids of the Pair (or node) returned
Returned(op, usr, sys, path) ==
  [op |-> op, user |-> usr, system |-> sys, path |-> path]

Graph == [c |-> convo, h |-> heap]

UserWith(message, options) ==
  /\ Len(convo.nodes) + 2 <= MaxNodes
  /\ LET g == user(Graph, message, options, idCounter, clock)
     IN /\ convo' = g.c
        /\ heap' = g.h
  /\ idCounter' = idCounter + 4
  /\ lastOp' = Returned("user", idCounter + 1, idCounter + 3, idCounter + 4)
  /\ log' = Append(log, "user")
  /\ UNCHANGED <<clock, pathVars, sdkVars, uiVars, awaiting, rebuilt>>

CallUser ==
  \E message \in Messages, options \in OptionArgs : UserWith(message, options)

SystemWith(message) ==
  /\ Len(convo.nodes) + 1 <= MaxNodes
  /\ LET g == system(Graph, message, idCounter, clock)
     IN /\ convo' = g.c
        /\ heap' = g.h
  /\ idCounter' = idCounter + 2
  /\ lastOp' = Returned("system", Undefined, idCounter + 1, Undefined)
  /\ log' = Append(log, "system")
  /\ UNCHANGED <<clock, pathVars, sdkVars, uiVars, awaiting, rebuilt>>

CallSystem == \E message \in Messages \cup {NoMessage} : SystemWith(message)

\* the Pairs a caller can hold: those user() returned, and lastPair()
KnownPairs(g) ==
  {Pair(g.c.paths[i].fromId, g.c.paths[i].toId, g.c.paths[i].id) :
     i \in {k \in 1..Len(g.c.paths) :
              g.c.paths[k].process.label = "assistant-reply"}}
  \cup ({lastPair(g)} \ {NoPair})

Replies == {"r"}

BeginAssistantWorkWith(pair, stepInfo) ==
  /\ Len(ProcessOf(Graph, pair).steps) < MaxSteps
  /\ LET g == beginAssistantWork(Graph, pair, stepInfo, clock)
     IN /\ convo' = g.c
        /\ heap' = g.h
  /\ lastOp' = Returned("beginAssistantWork", pair.user, pair.system, pair.path)
  /\ log' = Append(log, "beginAssistantWork")
  /\ UNCHANGED <<clock, pathVars, sdkVars, uiVars, idCounter, awaiting, rebuilt>>

ResolveAssistantWith(pair, reply, info) ==
  /\ LET g == resolveAssistant(Graph, pair, reply, info, clock)
     IN /\ convo' = g.c
        /\ heap' = g.h
  /\ lastOp' = Returned("resolveAssistant", pair.user, pair.system, pair.path)
  /\ log' = Append(log, "resolveAssistant")
  /\ UNCHANGED <<clock, pathVars, sdkVars, uiVars, idCounter, awaiting, rebuilt>>

CallResolveAssistant ==
  \E pair \in KnownPairs(Graph), reply \in Replies, info \in ExtraArgs :
    ResolveAssistantWith(pair, reply, info)

FailAssistantWith(pair, errorInfo) ==
  /\ errorInfo.present => Len(ProcessOf(Graph, pair).steps) < MaxSteps
  /\ LET g == failAssistant(Graph, pair, errorInfo, clock)
     IN /\ convo' = g.c
        /\ heap' = g.h
  /\ lastOp' = Returned("failAssistant", pair.user, pair.system, pair.path)
  /\ log' = Append(log, "failAssistant")
  /\ UNCHANGED <<clock, pathVars, sdkVars, uiVars, idCounter, awaiting, rebuilt>>

CallFailAssistant ==
  \E pair \in KnownPairs(Graph), errorInfo \in ExtraArgs :
    FailAssistantWith(pair, errorInfo)

UserQuickWith(message, reply, options) ==
  /\ Len(convo.nodes) + 2 <= MaxNodes
  /\ LET g == userQuick(Graph, message, reply, options, idCounter, clock)
     IN /\ convo' = g.c
        /\ heap' = g.h
  /\ idCounter' = idCounter + 4
  /\ lastOp' = Returned("userQuick", idCounter + 1, idCounter + 3, idCounter + 4)
  /\ log' = Append(log, "userQuick")
  /\ UNCHANGED <<clock, pathVars, sdkVars, uiVars, awaiting, rebuilt>>

\* userAsync(message, fn, options?) up to its `await fn(pair)`
UserAsyncCallWith(message, options) ==
  /\ Len(convo.nodes) + 2 <= MaxNodes
  /\ LET pair == Pair(idCounter + 1, idCounter + 3, idCounter + 4)
         g == beginAssistantWork(
                user(Graph, message, options, idCounter, clock),
                pair, NoInfo, clock)
     IN /\ convo' = g.c
        /\ heap' = g.h
        /\ awaiting' = awaiting \cup {pair}
  /\ idCounter' = idCounter + 4
  /\ lastOp' = Returned("userAsync:await", idCounter + 1, idCounter + 3,
                        idCounter + 4)
  /\ log' = Append(log, "userAsync")
  /\ UNCHANGED <<clock, pathVars, sdkVars, uiVars, rebuilt>>

\* what fn(pair) gives back: a string, or an object { reply, info? }
StringOut(reply) == [isString |-> TRUE, reply |-> reply, info |-> NoInfo]
ObjectOut(reply, info) == [isString |-> FALSE, reply |-> reply, info |-> info]
AsyncOutputs ==
  {StringOut(r) : r \in Replies}
  \cup {ObjectOut(r, i) : r \in Replies, i \in ExtraArgs}

\* a try block that resolves whatever pair is the latest one
UserAsyncFulfilWith_resolvesLastPair(pair, out) ==
  /\ pair \in awaiting
  /\ LET g == resolveAssistant(Graph, lastPair(Graph), out.reply,
                               IF out.isString THEN NoInfo ELSE out.info,
                               clock)
     IN /\ convo' = g.c
        /\ heap' = g.h
  /\ awaiting' = awaiting \ {pair}
  /\ lastOp' = Returned("userAsync:return", pair.user, pair.system, pair.path)
  /\ UNCHANGED <<clock, pathVars, sdkVars, uiVars, idCounter, log, rebuilt>>

\* fn(pair) fulfilled with `out`: the try block resumes and the pair is returned
UserAsyncFulfilWith(pair, out) ==
  /\ pair \in awaiting
  /\ LET g == IF out.isString
                THEN resolveAssistant(Graph, pair, out.reply, NoInfo, clock)
                ELSE resolveAssistant(Graph, pair, out.reply, out.info, clock)
     IN /\ convo' = g.c
        /\ heap' = g.h
  /\ awaiting' = awaiting \ {pair}
  /\ lastOp' = Returned("userAsync:return", pair.user, pair.system, pair.path)
  /\ UNCHANGED <<clock, pathVars, sdkVars, uiVars, idCounter, log, rebuilt>>

\* a catch block that fails the pair without the error's message
UserAsyncCatchWith_withoutMessage(pair, e) ==
  /\ pair \in awaiting
  /\ LET g == failAssistant(Graph, pair, NoInfo, clock)
     IN /\ convo' = g.c
        /\ heap' = g.h
  /\ awaiting' = awaiting \ {pair}
  /\ lastOp' = Returned("userAsync:caught", pair.user, pair.system, pair.path)
  /\ UNCHANGED <<clock, pathVars, sdkVars, uiVars, idCounter, log, rebuilt>>

\* fn(pair) threw or rejected with `e`: the catch block runs and the pair is
\* returned
UserAsyncCatchWith(pair, e) ==
  /\ pair \in awaiting
  /\ LET g == failAssistant(Graph, pair, Info("error" :> e), clock)
     IN /\ convo' = g.c
        /\ heap' = g.h
  /\ awaiting' = awaiting \ {pair}
  /\ lastOp' = Returned("userAsync:caught", pair.user, pair.system, pair.path)
  /\ UNCHANGED <<clock, pathVars, sdkVars, uiVars, idCounter, log, rebuilt>>

\* the conversation driven with one message per appending call
MoreCalls == Len(log) < MaxCalls
PlainUser == MoreCalls /\ UserWith("hi", NoOptions)
PlainSystem ==
  MoreCalls /\ \E message \in {"hi", NoMessage} : SystemWith(message)
PlainUserQuick ==
  MoreCalls /\ \E reply \in Replies : UserQuickWith("hi", reply, NoOptions)
PlainUserAsync ==
  /\ MoreCalls
  /\ Cardinality(awaiting) < MaxPending
  /\ UserAsyncCallWith("hi", NoOptions)
PlainBeginAssistantWork ==
  /\ MoreCalls
  /\ \E pair \in KnownPairs(Graph) : BeginAssistantWorkWith(pair, NoInfo)
PlainResolveAssistant == MoreCalls /\ CallResolveAssistant
PlainFailAssistant == MoreCalls /\ CallFailAssistant
UserAsyncFulfil ==
  \E pair \in awaiting, out \in AsyncOutputs : UserAsyncFulfilWith(pair, out)
UserAsyncCatch ==
  \E pair \in awaiting, e \in ErrorMessages : UserAsyncCatchWith(pair, e)

\* userAsync() calls whose callbacks are suspended at the same time and
\* settle in any order, each with its own reply
CallbackReplies == {"r1", "r2"}
CallbackOutputs ==
  {StringOut(r) : r \in CallbackReplies}
  \cup {ObjectOut(r, Info("k" :> "2")) : r \in CallbackReplies}
AsyncCall ==
  /\ Cardinality(awaiting) < MaxSuspended
  /\ UserAsyncCallWith("hi", NoOptions)
AsyncFulfil ==
  \E pair \in awaiting, out \in CallbackOutputs :
    UserAsyncFulfilWith(pair, out)
AsyncCatch ==
  \E pair \in awaiting, e \in ErrorMessages : UserAsyncCatchWith(pair, e)

\* the rows handed to the rebuild functions
RowStatuses == {"undefined", "queued", "running", "done", "error"}
ShapeUsers == {NoSide, Side("u", Undefined), Side("u", 10), Side("", 10)}
ShapeSystems ==
  {NoSide, Side("s", Undefined), Side("s", 20), Side("s", 5), Side("", 20)}
ShapeRows ==
  {Row(u, s, "undefined") : u \in ShapeUsers, s \in ShapeSystems}
  \cup {Row(Side("u", 10), NoSide, status) : status \in RowStatuses}
TranscriptUsers == {NoSide, Side("u", 10), Side("u", 20), Side("", 10)}
TranscriptSystems == {NoSide, Side("s", 10), Side("s", 20), Side("", 20)}
TranscriptRows ==
  {Row(u, s, "undefined") : u \in TranscriptUsers, s \in TranscriptSystems}

\* rebuildConversationFromShape(rows) for rows one row longer than those
\* convo was made from: the loop goes through the same iterations and one
\* more, so convo' is rebuildConversationFromShape(Append(rebuilt.rows, row))
RebuildShapeWith(row) ==
  /\ log = <<>>
  /\ rebuilt.format \in {"none", "shape"}
  /\ Len(rebuilt.rows) < MaxRows
  /\ LET st == shapeRow(Rebuilding(Graph, rebuilt.lastPair, idCounter), row,
                        Len(rebuilt.rows), clock)
     IN /\ convo' = st.g.c
        /\ heap' = st.g.h
        /\ idCounter' = st.ids
        /\ rebuilt' = [format |-> "shape", rows |-> Append(rebuilt.rows, row),
                       lastPair |-> st.lastPair]
  /\ lastOp' = Returned("rebuildConversationFromShape", Undefined, Undefined,
                        Undefined)
  /\ UNCHANGED <<clock, pathVars, sdkVars, uiVars, log, awaiting>>

RebuildShape == \E row \in ShapeRows : RebuildShapeWith(row)

\* rebuildConversationFromTranscript(_Rows), likewise
RebuildTranscriptWith(row) ==
  /\ log = <<>>
  /\ rebuilt.format \in {"none", "transcript"}
  /\ Len(rebuilt.rows) < MaxRows
  /\ LET st == transcriptRow(Rebuilding(Graph, rebuilt.lastPair, idCounter),
                             row, Len(rebuilt.rows), clock)
     IN /\ convo' = st.g.c
        /\ heap' = st.g.h
        /\ idCounter' = st.ids
        /\ rebuilt' = [format |-> "transcript",
                       rows |-> Append(rebuilt.rows, row),
                       lastPair |-> st.lastPair]
  /\ lastOp' = Returned("rebuildConversationFromTranscript", Undefined,
                        Undefined, Undefined)
  /\ UNCHANGED <<clock, pathVars, sdkVars, uiVars, log, awaiting>>

RebuildTranscript == \E row \in TranscriptRows : RebuildTranscriptWith(row)

\* user() and system() on a conversation made by `new Conversation()`
LiveUser == rebuilt.format = "none" /\ CallUser
LiveSystem == rebuilt.format = "none" /\ CallSystem

\* no rebuild function has run on this conversation
\* ------------------------------------------------------ calls on the ChatSDK
Texts == {"hi"}
\* opts.moderator of the constructor
Moderators ==
  {NoModerator, Moderator(<<"allow">>), Moderator(<<"block">>),
   Moderator(<<"modify", "block">>)}
\* extra?.requestId of a sendText call
ExtraRequestIds == {Undefined, 90}
Tokens == {"a", "b", NoMessage}
\* the requestId a server event carries: that of a request sent, or none
RequestIds == {Undefined} \cup {sent[i].requestId : i \in 1..Len(sent)}
AITokens ==
  {[requestId |-> r, token |-> token, index |-> 0] :
     r \in RequestIds, token \in Tokens}
AIMessages ==
  {[requestId |-> r, text |-> "ab", createdAt |-> NoMessage,
    usage |-> Undefined, options |-> NoOptions] : r \in RequestIds}
  \cup {[requestId |-> r, text |-> "ab",
          createdAt |-> "1970-01-01T00:00:00.007Z", usage |-> 10,
          options |-> <<"opt">>] : r \in RequestIds}
AIErrors == {[requestId |-> r, message |-> "bad"] : r \in RequestIds}

\* await sdk.sendText(text, { requestId }): runModeration settles in a
\* microtask, before the socket can deliver anything
SendTextWith(text, requestId) ==
  /\ Len(sent) < MaxInFlight
  /\ Len(convo.nodes) + 2 <= MaxNodes
  /\ IF runModeration(ThisOpts, text).action = "block"
       THEN /\ emitted' = Append(emitted,
                                 Emitted("error", Undefined, "blocked",
                                         NoMessage))
            /\ lastOp' = Returned("sendText", Undefined, Undefined, Undefined)
            /\ UNCHANGED <<convo, heap, idCounter, log, sent>>
       ELSE /\ convo' = sendText(Graph, runModeration(ThisOpts, text).text,
                                 idCounter, clock).c
            /\ heap' = sendText(Graph, runModeration(ThisOpts, text).text,
                                idCounter, clock).h
            /\ idCounter' = idCounter + 4
            /\ log' = log \o <<"user", "beginAssistantWork">>
            /\ sent' = Append(sent,
                              Payload(Pair(idCounter + 1, idCounter + 3,
                                           idCounter + 4),
                                      runModeration(ThisOpts, text).text,
                                      requestId))
            /\ emitted' = emitted
                 \o <<Emitted("pair:created", idCounter + 4, NoMessage,
                              NoMessage),
                      ConversationUpdate(Pair(idCounter + 1, idCounter + 3,
                                              idCounter + 4))>>
            /\ lastOp' = Returned("sendText", idCounter + 1, idCounter + 3,
                                  idCounter + 4)
  /\ UNCHANGED <<clock, pathVars, awaiting, rebuilt, received, moderator, uiVars>>

SendText ==
  \E text \in Texts, requestId \in ExtraRequestIds :
    SendTextWith(text, requestId)

\* the socket passes a server event to its callback
Receive(op) ==
  /\ received < MaxEvents
  /\ received' = received + 1
  /\ lastOp' = Returned(op, lastPair(Graph).user, lastPair(Graph).system,
                        lastPair(Graph).path)
  /\ log' = Append(log, op)
  /\ UNCHANGED <<clock, pathVars, idCounter, awaiting, rebuilt, sent,
                 moderator, uiVars>>

\* socket callback onAIToken(e)
OnAITokenWith(e) ==
  /\ Receive("onAIToken")
  /\ IF lastPair(Graph) = NoPair
       THEN UNCHANGED <<convo, heap, emitted>>
       ELSE /\ convo' = onAIToken(Graph, lastPair(Graph), e, clock).c
            /\ heap' = onAIToken(Graph, lastPair(Graph), e, clock).h
            /\ emitted' = emitted
                 \o <<Emitted("ai:token", e.index, e.token,
                              Cumulative(Graph, lastPair(Graph), e.token)),
                      Emitted("system:update", lastPair(Graph).system,
                              Cumulative(Graph, lastPair(Graph), e.token),
                              NoMessage),
                      ConversationUpdate(lastPair(Graph))>>

OnAIToken == \E e \in AITokens : OnAITokenWith(e)

\* socket callback onAIMessage(e)
OnAIMessageWith(e) ==
  /\ Receive("onAIMessage")
  /\ IF lastPair(Graph) = NoPair
       THEN UNCHANGED <<convo, heap, emitted>>
       ELSE /\ convo' = onAIMessage(Graph, lastPair(Graph), e, clock).c
            /\ heap' = onAIMessage(Graph, lastPair(Graph), e, clock).h
            /\ emitted' = emitted
                 \o <<Emitted("ai:message", Undefined, e.text, NoMessage),
                      Emitted("system:update", lastPair(Graph).system, e.text,
                              NoMessage),
                      ConversationUpdate(lastPair(Graph))>>

OnAIMessage == \E e \in AIMessages : OnAIMessageWith(e)

\* socket callback onAIError(e)
OnAIErrorWith(e) ==
  /\ Receive("onAIError")
  /\ lastPair(Graph) # NoPair =>
       Len(ProcessOf(Graph, lastPair(Graph)).steps) < MaxSteps
  /\ IF lastPair(Graph) = NoPair
       THEN UNCHANGED <<convo, heap>>
       ELSE /\ convo' = onAIError(Graph, lastPair(Graph), e, clock).c
            /\ heap' = onAIError(Graph, lastPair(Graph), e, clock).h
  /\ emitted' = emitted
       \o <<Emitted("error", Undefined, e.message, NoMessage),
            ConversationUpdate(lastPair(Graph))>>

OnAIError == \E e \in AIErrors : OnAIErrorWith(e)

ProcessingStatuses == {"queued", "working", "Retrying", "done", "failed"}
AIProcessings ==
  {[requestId |-> r, status |-> status, reason |-> NoMessage] :
     r \in RequestIds, status \in ProcessingStatuses}
ChatMessages ==
  {[text |-> "yo", createdAt |-> "1970-01-01T00:00:00.007Z"]}

\* socket callback onAIProcessing(e)
OnAIProcessingWith(e) ==
  /\ Receive("onAIProcessing")
  /\ IF lastPair(Graph) = NoPair
       THEN UNCHANGED <<convo, heap, emitted>>
       ELSE /\ convo' = onAIProcessing(Graph, lastPair(Graph), e, clock).c
            /\ heap' = onAIProcessing(Graph, lastPair(Graph), e, clock).h
            /\ emitted' = emitted
                 \o <<StatusChange(lastPair(Graph).path,
                                   ProcessOf(Graph, lastPair(Graph)).status,
                                   defaultMapStatus(e.status)),
                      ConversationUpdate(lastPair(Graph))>>

OnAIProcessing == \E e \in AIProcessings : OnAIProcessingWith(e)

\* socket callback onChatMessage(e)
OnChatMessageWith(e) ==
  /\ received < MaxEvents
  /\ Len(convo.nodes) + 1 <= MaxNodes
  /\ received' = received + 1
  /\ convo' = onChatMessage(Graph, e, idCounter, clock).c
  /\ heap' = onChatMessage(Graph, e, idCounter, clock).h
  /\ idCounter' = idCounter + 2
  /\ emitted' = emitted
       \o <<Emitted("chat:message", Undefined,
                    ContentMessage(
                      onChatMessage(Graph, e, idCounter, clock).h[idCounter + 1]),
                    NoMessage),
            ConversationUpdate(NoPair)>>
  /\ lastOp' = Returned("onChatMessage", Undefined, idCounter + 1, Undefined)
  /\ log' = Append(log, "onChatMessage")
  /\ UNCHANGED <<clock, pathVars, awaiting, rebuilt, sent, moderator, uiVars>>

OnChatMessage == \E e \in ChatMessages : OnChatMessageWith(e)

\* --------------------------------------------------------- TypingObserver
\* src/src/interactions/typingObserver/TypingObserver.ts.  Delays are counted
\* in units of one timer tick.  A timer is a record of its id, its callback
\* and the ticks left until it is due; timers are kept in creation order.
\* setTimeout ids only ever serve as handles, so an id is handed out again
\* once no pending timer and neither id field holds it.

\* null in pauseTimerId and stopTimerId
NoTimer == 0

\* the options object a TypingObserver is constructed with, defaults applied
DefaultTypingOptions ==
  [pauseDelay |-> 1, stopDelay |-> 2, trackSelection |-> TRUE]

TypingOptions ==
  { DefaultTypingOptions,
    [pauseDelay |-> 2, stopDelay |-> 2, trackSelection |-> TRUE],
    [pauseDelay |-> 1, stopDelay |-> 2, trackSelection |-> FALSE] }

\* new TypingObserver(element, options), followed by on() for every event
newTypingObserver(options) ==
  [ options |-> options,
    isFocused |-> FALSE,
    hasTypedSinceFocus |-> FALSE,
    pauseTimerId |-> NoTimer,
    stopTimerId |-> NoTimer,
    timers |-> <<>>,
    attached |-> TRUE,
    listeners |-> TRUE,
    out |-> <<>> ]

\* Emitter.emit: the listeners of the event are called, if there are any
emit(o, event) ==
  IF o.listeners THEN [o EXCEPT !.out = Append(@, event)] ELSE o

TimerIdsInUse(o) ==
  {o.timers[k].id : k \in 1..Len(o.timers)}
    \cup {o.pauseTimerId, o.stopTimerId}

\* the id window.setTimeout returns
FreshTimerId(o) ==
  CHOOSE i \in 1..(Len(o.timers) + 3) :
    /\ i \notin TimerIdsInUse(o)
    /\ \A j \in 1..(Len(o.timers) + 3) : j \notin TimerIdsInUse(o) => i <= j

Timer(id, kind, left) == [id |-> id, kind |-> kind, left |-> left]

\* clearTimeout(id): nothing happens when no pending timer has the id
clearTimeout(o, id) ==
  [o EXCEPT !.timers = SelectSeq(@, LAMBDA t : t.id # id)]

clearPauseTimer_clearsStopToo(o) ==
  [o EXCEPT !.timers = SelectSeq(@, LAMBDA t : t.id \notin {o.pauseTimerId,
                                                            o.stopTimerId}),
            !.pauseTimerId = NoTimer,
            !.stopTimerId = NoTimer]

clearPauseTimer(o) ==
  IF o.pauseTimerId # NoTimer
    THEN [clearTimeout(o, o.pauseTimerId) EXCEPT !.pauseTimerId = NoTimer]
    ELSE o

clearStopTimer(o) ==
  IF o.stopTimerId # NoTimer
    THEN [clearTimeout(o, o.stopTimerId) EXCEPT !.stopTimerId = NoTimer]
    ELSE o

clearAllTimers(o) == clearStopTimer(clearPauseTimer(o))

startPauseTimer(o) ==
  [o EXCEPT !.pauseTimerId = FreshTimerId(o),
            !.timers = Append(@, Timer(FreshTimerId(o), "pause",
                                       o.options.pauseDelay))]

startStopTimer(o) ==
  [o EXCEPT !.stopTimerId = FreshTimerId(o),
            !.timers = Append(@, Timer(FreshTimerId(o), "stop",
                                       o.options.stopDelay))]

restartInactivityTimers(o) ==
  startStopTimer(startPauseTimer(clearAllTimers(o)))

emitStop(o) ==
  clearAllTimers(
    [(IF o.hasTypedSinceFocus THEN emit(o, "typingStop") ELSE o)
       EXCEPT !.hasTypedSinceFocus = FALSE])

\* the callback startPauseTimer hands to setTimeout
pauseCallback(o) == IF o.isFocused THEN emit(o, "typingPause") ELSE o

onFocus(o) == emit([o EXCEPT !.isFocused = TRUE], "focus")

onBlur(o) == emit(emitStop([o EXCEPT !.isFocused = FALSE]), "blur")

onInput_alwaysStarts(o) ==
  restartInactivityTimers(
    emit(emit([o EXCEPT !.hasTypedSinceFocus = TRUE], "typingStart"),
         "typing"))

onInput(o) ==
  restartInactivityTimers(
    emit(IF ~o.hasTypedSinceFocus
           THEN emit([o EXCEPT !.hasTypedSinceFocus = TRUE], "typingStart")
           ELSE o,
         "typing"))

\* inside: the document has a selection whose range starts in the element
onSelectionChange(o, inside) ==
  IF ~o.isFocused \/ ~inside
    THEN o
    ELSE startStopTimer(startPauseTimer(clearPauseTimer(o)))

bump(o) == onInput(o)

destroy(o) ==
  [clearAllTimers([o EXCEPT !.attached = FALSE]) EXCEPT !.listeners = FALSE]

\* the timers that are due, and the one the event loop runs first
DueTimers(o) == {k \in 1..Len(o.timers) : o.timers[k].left = 0}

NextTimer(o) ==
  CHOOSE k \in DueTimers(o) : \A j \in DueTimers(o) : k <= j

WithoutTimer(o, k) ==
  [o EXCEPT !.timers = SubSeq(@, 1, k - 1) \o SubSeq(@, k + 1, Len(@))]

\* the event loop takes timer k off its list and runs its callback
runTimer(o, k) ==
  IF o.timers[k].kind = "pause"
    THEN pauseCallback(WithoutTimer(o, k))
    ELSE emitStop(WithoutTimer(o, k))

\* one tick passes for every pending timer
elapse(o) ==
  [o EXCEPT !.timers = [k \in DOMAIN @ |-> [@[k] EXCEPT !.left = @ - 1]]]

\* the observer as a handler finds it: nothing emitted yet
Quiet(o) == [o EXCEPT !.out = <<>>]

\* what the listeners saw: the last of typingStart and typingStop delivered,
\* the ticks since the last selection change that restarted the timers
\* (counted up to stopDelay), the number of events and calls from outside,
\* and the name of the last one
NothingTyped ==
  [lastEdge |-> "none", sinceSelection |-> Undefined, activity |-> 0,
   op |-> "new"]

Edges(out) == SelectSeq(out, LAMBDA e : e \in {"typingStart", "typingStop"})

EdgeAfter(edge, out) ==
  IF Edges(out) = <<>> THEN edge ELSE Edges(out)[Len(Edges(out))]

SinceSelectionAfterTick(o, since) ==
  IF since = Undefined \/ since >= o.options.stopDelay
    THEN since
    ELSE since + 1

\* a DOM event reaches its listener, or a method is called from outside
MoreActivity == typing.activity < MaxActivity

UserEvent(op, o, since) ==
  /\ observer' = o
  /\ typing' = [lastEdge |-> EdgeAfter(typing.lastEdge, o.out),
                sinceSelection |-> since,
                activity |-> typing.activity + 1,
                op |-> op]
  /\ UNCHANGED <<clock, pathVars, graphVars, sdkVars, service>>

Focus ==
  /\ MoreActivity
  /\ observer.attached
  /\ UserEvent("focus", onFocus(Quiet(observer)), typing.sinceSelection)

Blur ==
  /\ MoreActivity
  /\ observer.attached
  /\ UserEvent("blur", onBlur(Quiet(observer)), typing.sinceSelection)

Input ==
  /\ MoreActivity
  /\ observer.attached
  /\ UserEvent("input", onInput(Quiet(observer)), typing.sinceSelection)

\* bump() is a method: it works without the DOM listeners
Bump ==
  /\ MoreActivity
  /\ UserEvent("bump", bump(Quiet(observer)), typing.sinceSelection)

CompositionStart ==
  /\ MoreActivity
  /\ observer.attached
  /\ UserEvent("compositionstart", clearPauseTimer(Quiet(observer)),
               typing.sinceSelection)

CompositionEnd ==
  /\ MoreActivity
  /\ observer.attached
  /\ UserEvent("compositionend", restartInactivityTimers(Quiet(observer)),
               typing.sinceSelection)

SelectionChangeWith(inside) ==
  /\ MoreActivity
  /\ observer.attached
  /\ observer.options.trackSelection
  /\ UserEvent("selectionchange",
               onSelectionChange(Quiet(observer), inside),
               IF observer.isFocused /\ inside
                 THEN 0
                 ELSE typing.sinceSelection)

SelectionChange == \E inside \in BOOLEAN : SelectionChangeWith(inside)

Destroy ==
  /\ MoreActivity
  /\ observer.attached
  /\ UserEvent("destroy", destroy(Quiet(observer)), typing.sinceSelection)

\* the event loop runs the timer that is due first
TimerEvent(op) ==
  /\ observer' = runTimer(Quiet(observer), NextTimer(observer))
  /\ typing' = [typing EXCEPT
                  !.lastEdge = EdgeAfter(@, observer'.out),
                  !.op = op]
  /\ UNCHANGED <<clock, pathVars, graphVars, sdkVars, service>>

PauseTimerFires ==
  /\ DueTimers(observer) # {}
  /\ observer.timers[NextTimer(observer)].kind = "pause"
  /\ TimerEvent("pause")

StopTimerFires ==
  /\ DueTimers(observer) # {}
  /\ observer.timers[NextTimer(observer)].kind = "stop"
  /\ TimerEvent("stop")

\* time passes while no timer is due
AdvanceTimers ==
  /\ observer.timers # <<>>
  /\ DueTimers(observer) = {}
  /\ observer' = elapse(Quiet(observer))
  /\ typing' = [typing EXCEPT
                  !.sinceSelection = SinceSelectionAfterTick(observer, @),
                  !.op = "tick"]
  /\ UNCHANGED <<clock, pathVars, graphVars, sdkVars, service>>

\* ---------------------------------------------------------- SocketService
\* src/src/sockets/SocketService.ts.  A socket is a record of whether io()
\* has made it, whether it is trying to stay connected, whether its
\* transport is up, and the event names it has listeners for (the service's
\* own "connect", "disconnect" and error listeners are part of the actions).

NoSocket ==
  [exists |-> FALSE, active |-> FALSE, connected |-> FALSE, listeners |-> {}]

\* the events the server sends, and the handler maps given at construction
ServiceEvents == {"ai:token", "pong"}

HandlerMaps == {{}, {"ai:token"}}

\* the options objects: with autoConnect given, and with it left out
ServiceOptions == [autoConnect : BOOLEAN, handlers : HandlerMaps]

DefaultedServiceOptions == [handlers : HandlerMaps]

\* options.autoConnect ?? true
autoConnectOf(options) ==
  IF "autoConnect" \in DOMAIN options THEN options.autoConnect ELSE TRUE

\* io(url, {autoConnect: true, ...}): a socket that starts connecting.  With
\* multiplexing io() hands out the socket it made before for the same url.
io(socket, multiplexed) ==
  IF multiplexed /\ socket.exists
    THEN [socket EXCEPT !.active = TRUE]
    ELSE [exists |-> TRUE, active |-> TRUE, connected |-> FALSE,
          listeners |-> {}]

\* SocketService.on(event, listener) for every entry of a handler map
onEach(s, handlers) ==
  [s EXCEPT !.socket.listeners = @ \cup handlers,
            !.registeredHandlers = @ \cup handlers]

\* SocketService.connect(initialHandlers); no handlers is the empty map
connect(s, initialHandlers, multiplexed) ==
  IF (s.socket.exists /\ s.socket.connected) \/ s.connected
    THEN s
    ELSE onEach([s EXCEPT !.socket = io(@, multiplexed)], initialHandlers)

\* new SocketService(options): options.handlers is handed to connect() and
\* kept nowhere else; `given` records the constructor's argument
newSocketService(options) ==
  IF autoConnectOf(options)
    THEN connect([given |-> options.handlers, socket |-> NoSocket,
                  connected |-> FALSE, registeredHandlers |-> {},
                  invoked |-> {}, served |-> 0, closed |-> FALSE],
                 options.handlers, FALSE)
    ELSE [given |-> options.handlers, socket |-> NoSocket,
          connected |-> FALSE, registeredHandlers |-> {},
          invoked |-> {}, served |-> 0, closed |-> FALSE]

\* SocketService.disconnect()
disconnect(s) ==
  IF ~s.socket.exists
    THEN s
    ELSE [s EXCEPT !.socket.listeners = @ \ s.registeredHandlers,
                   !.socket.active = FALSE,
                   !.socket.connected = FALSE,
                   !.registeredHandlers = {},
                   !.connected = FALSE,
                   !.closed = TRUE]

\* the service as a call or an event finds it: no handler invoked yet
Calm(s) == [s EXCEPT !.invoked = {}]

ServiceStep(s) ==
  /\ service' = s
  /\ UNCHANGED <<clock, pathVars, graphVars, sdkVars, observer, typing>>

\* service.connect(), as AIChatSocket.connect() calls it, or with a map
ServiceConnectWith(initialHandlers, multiplexed) ==
  /\ ~service.connected
  /\ ~service.socket.connected
  /\ ServiceStep(connect(Calm(service), initialHandlers, multiplexed))

ServiceConnect ==
  \E initialHandlers \in HandlerMaps, multiplexed \in BOOLEAN :
    ServiceConnectWith(initialHandlers, multiplexed)

\* service.on(event, listener); without a socket the call throws
ServiceOnWith(event) ==
  /\ service.socket.exists
  /\ event \notin service.registeredHandlers
  /\ ServiceStep(onEach(Calm(service), {event}))

ServiceOn == \E event \in ServiceEvents : ServiceOnWith(event)

ServiceDisconnect ==
  /\ service.socket.exists
  /\ service.socket.active
  /\ ServiceStep(disconnect(Calm(service)))

\* the socket's "connect" event: the listener connect() registered runs
SocketConnects ==
  /\ service.socket.active
  /\ ~service.socket.connected
  /\ ServiceStep([Calm(service) EXCEPT !.socket.connected = TRUE,
                                      !.connected = TRUE])

\* the socket's "disconnect" event after the transport dropped
SocketDrops ==
  /\ service.socket.connected
  /\ ServiceStep([Calm(service) EXCEPT !.socket.connected = FALSE,
                                      !.connected = FALSE])

\* the server sends an event: the socket calls its listeners for that name
ServerEventWith(event) ==
  /\ service.socket.connected
  /\ service.served < MaxServerEvents
  /\ ServiceStep([service EXCEPT
                    !.invoked = {event} \cap service.socket.listeners,
                    !.served = @ + 1])

ServerEvent == \E event \in ServiceEvents : ServerEventWith(event)

\* ------------------------------------------------------- initial states
NotRebuilt == [format |-> "none", rows |-> <<>>, lastPair |-> NoPair]

InitPath ==
  /\ clock = 1
  /\ process = NewProcess("")
  /\ lastCall = Call("new")
  /\ pending = {}

InitGraph ==
  /\ convo = NewConversation
  /\ heap = <<>>
  /\ idCounter = 0
  /\ lastOp = Returned("new", Undefined, Undefined, Undefined)
  /\ log = <<>>
  /\ awaiting = {}
  /\ rebuilt = NotRebuilt

InitSdk ==
  /\ sent = <<>>
  /\ emitted = <<>>
  /\ received = 0
  /\ moderator = NoModerator

\* a TypingObserver with the default options, a SocketService with none
InitUi ==
  /\ observer = newTypingObserver(DefaultTypingOptions)
  /\ typing = NothingTyped
  /\ service = newSocketService([handlers |-> {}])

\* a ChatSDK constructed with any of the moderators
InitModerated ==
  /\ InitPath
  /\ InitGraph
  /\ sent = <<>>
  /\ emitted = <<>>
  /\ received = 0
  /\ moderator \in Moderators
  /\ InitUi

Init == InitPath /\ InitGraph /\ InitSdk /\ InitUi

\* a TypingObserver constructed with any of the options
InitTyping ==
  /\ InitPath
  /\ InitGraph
  /\ InitSdk
  /\ observer \in {newTypingObserver(options) : options \in TypingOptions}
  /\ typing = NothingTyped
  /\ service = newSocketService([handlers |-> {}])

\* a SocketService constructed with any of the options
InitService ==
  /\ InitPath
  /\ InitGraph
  /\ InitSdk
  /\ observer = newTypingObserver(DefaultTypingOptions)
  /\ typing = NothingTyped
  /\ service \in
       {newSocketService(options) : options \in ServiceOptions}
         \cup {newSocketService(options) :
                 options \in DefaultedServiceOptions}

Next ==
  \/ CallStart
  \/ CallRunning
  \/ CallStep
  \/ CallEndStep
  \/ CallDone
  \/ CallError
  \/ WithStepCall
  \/ WithStepThrow
  \/ WithStepResolve
  \/ WithStepReject

Spec == Init /\ [][Next]_vars

NextGraph ==
  \/ Tick
  \/ CallUser
  \/ CallSystem

SpecGraph == Init /\ [][NextGraph]_vars

NextAssist ==
  \/ PlainUser
  \/ PlainSystem
  \/ PlainUserQuick
  \/ PlainUserAsync
  \/ UserAsyncFulfil
  \/ UserAsyncCatch
  \/ PlainBeginAssistantWork
  \/ PlainResolveAssistant
  \/ PlainFailAssistant

SpecAssist == Init /\ [][NextAssist]_vars

\* userAsync() calls only, several suspended at once
NextAsync ==
  \/ AsyncCall
  \/ AsyncFulfil
  \/ AsyncCatch

SpecAsync == Init /\ [][NextAsync]_vars

\* a conversation either built live or returned by a rebuild function
NextRebuild ==
  \/ LiveUser
  \/ LiveSystem
  \/ RebuildShape
  \/ RebuildTranscript

SpecRebuild == Init /\ [][NextRebuild]_vars

\* the turn while time passes, every call with one input
PlainStep == StepWith("a", NoInfo)

PlainEndStep == EndStepWith("true", NoInfo)

PlainError == ErrorWith(NoInfo)

NextClock ==
  \/ Tick
  \/ CallStart
  \/ CallRunning
  \/ PlainStep
  \/ PlainEndStep
  \/ CallDone
  \/ PlainError

SpecClock == Init /\ [][NextClock]_vars

\* one ChatSDK: sendText calls and the server's answers, in any order
NextSdk ==
  \/ SendText
  \/ OnAIToken
  \/ OnAIMessage
  \/ OnAIError

SpecSdk == Init /\ [][NextSdk]_vars

\* one ChatSDK with all the socket callbacks that write to the graph
NextSdkEvents ==
  \/ SendText
  \/ OnAIToken
  \/ OnAIMessage
  \/ OnAIError
  \/ OnAIProcessing
  \/ OnChatMessage

SpecSdkEvents == Init /\ [][NextSdkEvents]_vars

\* the same, for a ChatSDK constructed with a moderator
SpecModerated == InitModerated /\ [][NextSdk]_vars

NextTyping ==
  \/ Focus
  \/ Blur
  \/ Input
  \/ Bump
  \/ CompositionStart
  \/ CompositionEnd
  \/ SelectionChange
  \/ Destroy
  \/ PauseTimerFires
  \/ StopTimerFires
  \/ AdvanceTimers

SpecTyping == InitTyping /\ [][NextTyping]_vars

\* the event loop runs every timer that is due, and time does not stand still
SpecTypingLive ==
  /\ InitTyping
  /\ [][NextTyping]_vars
  /\ WF_vars(PauseTimerFires)
  /\ WF_vars(StopTimerFires)
  /\ WF_vars(AdvanceTimers)

NextService ==
  \/ ServiceConnect
  \/ ServiceOn
  \/ ServiceDisconnect
  \/ SocketConnects
  \/ SocketDrops
  \/ ServerEvent

SpecService == InitService /\ [][NextService]_vars

\* ------------------------------------------------------------ the claims
\* a step is open while it has no endedAt
OpenSteps(p) == {i \in 1..Len(p.steps) : p.steps[i].endedAt = Undefined}
Terminal(p) == p.status \in {"done", "error"}
LastStep(p) == p.steps[Len(p.steps)]

\* C1: once a turn's status is done or error, no later call changes it.
C1_TerminalStatusIsFinal ==
  [][Terminal(process) => process'.status = process.status]_vars

\* C2: at most one step is open, and an open step is the last element of steps.
C2_AtMostOneOpenStep ==
  /\ Cardinality(OpenSteps(process)) <= 1
  /\ OpenSteps(process) \subseteq {Len(process.steps)}

C2_Witness ==
  /\ Len(process.steps) = 2
  /\ OpenSteps(process) = {2}
  /\ lastCall.op \in {"step", "withStep"}

\* C3: startedAt is assigned at most once, at the first promotion out of
\* notStarted, and never changes afterwards; start() on a turn that is not
\* notStarted and running() on a running, done or error turn change nothing;
\* a queued or running turn has startedAt set.
C3_StartedAtSetOnce ==
  /\ [](process.status \in {"queued", "running"} => process.startedAt # Undefined)
  /\ [][/\ process.startedAt # Undefined => process'.startedAt = process.startedAt
        /\ process'.startedAt # process.startedAt =>
             /\ process.status = "notStarted"
             /\ process'.status \in {"queued", "running"}
        /\ CallStart /\ process.status # "notStarted" => process' = process
        /\ CallRunning /\ process.status \in {"running", "done", "error"} =>
             process' = process]_vars

C3_Witness ==
  /\ lastCall.op = "start"
  /\ process.status = "running"
  /\ process.startedAt # Undefined
  /\ process.startedAt < clock

\* C4: step() on a notStarted, queued or running turn leaves the turn running,
\* makes steps one longer and leaves the new step as the only open step; a step
\* that was open before is closed and keeps the ok it had.
C4_StepPost(name, info) ==
  StepWith(name, info) /\ ~Terminal(process) =>
    /\ process'.status = "running"
    /\ Len(process'.steps) = Len(process.steps) + 1
    /\ OpenSteps(process') = {Len(process'.steps)}
    /\ LastStep(process').name = name
    /\ \A i \in OpenSteps(process) :
         /\ process'.steps[i].endedAt # Undefined
         /\ process'.steps[i].ok = process.steps[i].ok

C4_StepAppendsOneOpenStep ==
  [][\A name \in StepNames, info \in InfoArgs : C4_StepPost(name, info)]_vars

C4_Witness ==
  /\ lastCall.op = "step"
  /\ process.status = "running"
  /\ Len(process.steps) = 2
  /\ process.steps[1].endedAt # Undefined
  /\ process.steps[1].ok = "undefined"
  /\ process.steps[2].endedAt = Undefined

\* C5: after done(), in any state, status is done, endedAt is set, no step is
\* open, and a step that was open just before is closed with ok = true.
C5_DoneClosesTurn ==
  [][CallDone =>
       /\ process'.status = "done"
       /\ process'.endedAt # Undefined
       /\ OpenSteps(process') = {}
       /\ \A i \in OpenSteps(process) : process'.steps[i].ok = "true"]_vars

C5_Witness ==
  /\ lastCall.op = "done"
  /\ process.status = "done"
  /\ process.endedAt = clock
  /\ Len(process.steps) = 2
  /\ process.steps[1].ok = "undefined"
  /\ process.steps[2].ok = "true"
  /\ process.steps[2].endedAt = clock

\* C6: after error(info), in any state, status is error, endedAt is set, a step
\* that was open just before is closed with ok = false, and the last step is a
\* closed step named 'error' with ok = false whose info has the supplied keys;
\* error() without info appends no step.
C6_ErrorPost(info) ==
  ErrorWith(info) =>
    /\ process'.status = "error"
    /\ process'.endedAt # Undefined
    /\ \A i \in OpenSteps(process) :
         /\ process'.steps[i].endedAt # Undefined
         /\ process'.steps[i].ok = "false"
    /\ info.present =>
         /\ Len(process'.steps) = Len(process.steps) + 1
         /\ LastStep(process').name = "error"
         /\ LastStep(process').endedAt # Undefined
         /\ LastStep(process').ok = "false"
         /\ \A k \in DOMAIN info.map :
              /\ k \in DOMAIN LastStep(process').info.map
              /\ LastStep(process').info.map[k] = info.map[k]
    /\ ~info.present => Len(process'.steps) = Len(process.steps)

C6_ErrorClosesTurn == [][\A info \in InfoArgs : C6_ErrorPost(info)]_vars

C6_Witness ==
  /\ lastCall.op = "error(info)"
  /\ process.status = "error"
  /\ Len(process.steps) = 2
  /\ process.steps[1].name = "a"
  /\ process.steps[1].ok = "false"
  /\ process.steps[2].name = "error"
  /\ process.steps[2].ok = "false"
  /\ process.steps[2].info.map["k"] = "1"

\* C7: endStep(ok, extraInfo) closes the open step, gives it the ok passed
\* (true when omitted) and the shallow merge of its info and extraInfo,
\* extraInfo's keys winning; with no open step it changes nothing, so a closed
\* step is never altered by endStep.
C7_EndStepPost(ok, extra) ==
  EndStepWith(ok, extra) =>
    /\ OpenSteps(process) = {} => process' = process
    /\ \A i \in 1..Len(process.steps) :
         i \notin OpenSteps(process) => process'.steps[i] = process.steps[i]
    /\ \A i \in OpenSteps(process) :
         LET old == process.steps[i]
             new == process'.steps[i]
         IN /\ new.endedAt # Undefined
            /\ new.ok = (IF ok = "undefined" THEN "true" ELSE ok)
            /\ ~extra.present => new.info = old.info
            /\ extra.present =>
                 /\ DOMAIN new.info.map = DOMAIN old.info.map \cup DOMAIN extra.map
                 /\ \A k \in DOMAIN extra.map : new.info.map[k] = extra.map[k]
                 /\ \A k \in DOMAIN old.info.map \ DOMAIN extra.map :
                      new.info.map[k] = old.info.map[k]

C7_EndStepMerges ==
  [][\A ok \in OkArgs, extra \in ExtraArgs : C7_EndStepPost(ok, extra)]_vars

C7_Witness ==
  /\ lastCall.op = "endStep"
  /\ Len(process.steps) = 1
  /\ process.steps[1].endedAt # Undefined
  /\ process.steps[1].ok = "false"
  /\ process.steps[1].info.present
  /\ DOMAIN process.steps[1].info.map = {"j", "k"}
  /\ process.steps[1].info.map["k"] = "2"
  /\ process.steps[1].info.map["j"] = "1"

\* C8: with a clock that only advances, totalMs() of a queued or running turn
\* equals now - startedAt and strictly increases as the clock advances; once
\* done() or error() has been called on a started turn it equals
\* endedAt - startedAt and is the same at every later clock value; it is never
\* negative.
C8_TotalMs ==
  /\ [](/\ totalMs(process, clock) >= 0
        /\ process.status \in {"queued", "running"} =>
             totalMs(process, clock) = clock - process.startedAt
        /\ Terminal(process) /\ process.startedAt # Undefined =>
             totalMs(process, clock) = process.endedAt - process.startedAt)
  /\ [][clock' > clock =>
          /\ process.status \in {"queued", "running"} =>
               totalMs(process', clock') > totalMs(process, clock)
          /\ Terminal(process) =>
               totalMs(process', clock') = totalMs(process, clock)]_vars

C8_Witness ==
  /\ process.status = "done"
  /\ process.startedAt = 1
  /\ process.endedAt = 2
  /\ clock = 3
  /\ totalMs(process, clock) = 1

\* C9 as stated: the step withStep() opened is closed with ok = true when fn
\* returns or resolves, and with ok = false and info.error = the error message
\* when fn throws or rejects; the result is returned, the error re-raised.
C9_Settled(i, ok) ==
  /\ process'.steps[i].endedAt # Undefined
  /\ process'.steps[i].ok = ok

C9_WithStepClosesItsStep ==
  [][\A i \in 1..(MaxSteps + 1) :
       /\ \A r \in Results :
            WithStepResolveWith(i, r) =>
              C9_Settled(i, "true") /\ lastCall'.kind = "returned" /\ lastCall'.value = r
       /\ \A e \in ErrorMessages :
            WithStepRejectWith(i, e) =>
              /\ C9_Settled(i, "false")
              /\ "error" \in DOMAIN process'.steps[i].info.map
              /\ process'.steps[i].info.map["error"] = e
              /\ lastCall'.kind = "thrown" /\ lastCall'.value = e]_vars

\* C9 amended: withStep() opens a step named name; when fn settles it calls
\* endStep on the step that is open at that moment, so the step it opened is
\* closed with ok = true (resolve) or ok = false and info.error (reject, throw)
\* provided that step is still the open one, no other call on the turn having
\* closed or replaced it while fn was pending; the result is returned and the
\* error re-raised in every case.
C9_WithStepClosesOpenStep ==
  [][/\ \A name \in StepNames, info \in InfoArgs :
          WithStepCallWith(name, info) =>
            /\ LastStep(process').name = name
            /\ OpenSteps(process') = {Len(process'.steps)}
            /\ lastCall'.idx = Len(process'.steps)
     /\ \A name \in StepNames, info \in InfoArgs, e \in ErrorMessages :
          WithStepThrowWith(name, info, e) =>
            /\ LastStep(process').name = name
            /\ LastStep(process').endedAt # Undefined
            /\ LastStep(process').ok = "false"
            /\ "error" \in DOMAIN LastStep(process').info.map
            /\ LastStep(process').info.map["error"] = e
            /\ lastCall'.kind = "thrown" /\ lastCall'.value = e
     /\ \A i \in 1..(MaxSteps + 1) :
          /\ \A r \in Results :
               WithStepResolveWith(i, r) =>
                 /\ OpenSteps(process) = {i} => C9_Settled(i, "true")
                 /\ lastCall'.kind = "returned" /\ lastCall'.value = r
          /\ \A e \in ErrorMessages :
               WithStepRejectWith(i, e) =>
                 /\ OpenSteps(process) = {i} =>
                      /\ C9_Settled(i, "false")
                      /\ "error" \in DOMAIN process'.steps[i].info.map
                      /\ process'.steps[i].info.map["error"] = e
                 /\ lastCall'.kind = "thrown" /\ lastCall'.value = e]_vars

C9_Witness ==
  /\ lastCall.op = "withStep:reject"
  /\ lastCall.kind = "thrown"
  /\ lastCall.idx = Len(process.steps)
  /\ LastStep(process).ok = "false"
  /\ LastStep(process).endedAt # Undefined
  /\ "error" \in DOMAIN LastStep(process).info.map
  /\ LastStep(process).info.map["error"] = lastCall.value

\* C10: after N >= 1 user() calls on a fresh conversation and no other append,
\* nodes.length = 2N and paths.length = 2N - 1; each call adds one
\* assistant-reply turn in status queued, and every call after the first adds
\* one link turn from the previous tail to the new initiator node, placed
\* before that call's assistant-reply turn.
OnlyUserCalls == Len(log) >= 1 /\ \A i \in 1..Len(log) : log[i] = "user"

C10_Shape ==
  OnlyUserCalls =>
    LET N == Len(log) IN
    /\ Len(convo.nodes) = 2 * N
    /\ Len(convo.paths) = 2 * N - 1
    /\ \A k \in 1..N :
         LET reply == convo.paths[2 * k - 1] IN
         /\ reply.process.label = "assistant-reply"
         /\ reply.fromId = convo.nodes[2 * k - 1]
         /\ reply.toId = convo.nodes[2 * k]
         /\ heap[reply.fromId].type = "user"
         /\ heap[reply.toId].type = "system"
    /\ \A k \in 2..N :
         LET lnk == convo.paths[2 * k - 2] IN
         /\ lnk.process.label = "user-link"
         /\ lnk.fromId = convo.nodes[2 * k - 2]
         /\ lnk.toId = convo.nodes[2 * k - 1]

C10_UserPost(message, options) ==
  UserWith(message, options) =>
    /\ Len(convo'.nodes) = Len(convo.nodes) + 2
    /\ Len(convo'.paths) = Len(convo.paths) + (IF convo.tail = Undefined THEN 1 ELSE 2)
    /\ \A i \in (Len(convo.paths) + 1)..Len(convo'.paths) :
         convo'.paths[i].process.status = "queued"
    /\ convo'.paths[Len(convo'.paths)].process.label = "assistant-reply"
    /\ convo'.paths[Len(convo'.paths)].id = lastOp'.path
    /\ convo.tail # Undefined =>
         /\ convo'.paths[Len(convo'.paths) - 1].fromId = convo.tail
         /\ convo'.paths[Len(convo'.paths) - 1].toId = lastOp'.user

C10_UserCallsGrowGraph ==
  /\ []C10_Shape
  /\ [][\A message \in Messages, options \in OptionArgs :
          C10_UserPost(message, options)]_vars

C10_Witness ==
  /\ log = <<"user", "user", "user">>
  /\ Len(convo.nodes) = 6
  /\ Len(convo.paths) = 5
  /\ lastOp.op = "user"

\* C11: system() on an empty conversation makes the new node head and tail
\* and creates no turn; on a non-empty conversation it appends one node and
\* one turn from the old tail to the new node, labelled 'system-link' and
\* queued, and the new node becomes tail.
C11_SystemPost ==
  LET sys == idCounter + 1
      n == Len(convo.paths)
  IN /\ convo'.nodes = Append(convo.nodes, sys)
     /\ heap'[sys].type = "system"
     /\ convo'.tail = sys
     /\ IF convo.nodes = <<>>
          THEN /\ convo'.head = sys
               /\ convo'.paths = <<>>
          ELSE /\ convo'.head = convo.head
               /\ Len(convo'.paths) = n + 1
               /\ SubSeq(convo'.paths, 1, n) = convo.paths
               /\ convo'.paths[n + 1].fromId = convo.tail
               /\ convo'.paths[n + 1].toId = sys
               /\ convo'.paths[n + 1].process.label = "system-link"
               /\ convo'.paths[n + 1].process.status = "queued"

C11_SystemAppends ==
  [][\A message \in Messages \cup {NoMessage} :
       SystemWith(message) => C11_SystemPost]_vars

C11_Witness ==
  /\ lastOp.op = "system"
  /\ Len(convo.nodes) >= 3
  /\ convo.paths[Len(convo.paths)].process.label = "system-link"
  /\ convo.paths[Len(convo.paths)].toId = convo.tail

\* C12: after any sequence of system() and user() calls head is the first
\* element of nodes, tail is the last, and chain() yields exactly nodes in
\* insertion order.
C12_ChainIsNodes ==
  /\ chain(Graph) = convo.nodes
  /\ IF convo.nodes = <<>>
       THEN convo.head = Undefined /\ convo.tail = Undefined
       ELSE /\ convo.head = convo.nodes[1]
            /\ convo.tail = convo.nodes[Len(convo.nodes)]

C12_Witness ==
  /\ Len(convo.nodes) >= 5
  /\ \E i, j \in 1..Len(log) : log[i] = "user" /\ log[j] = "system"
  /\ chain(Graph) = convo.nodes

\* the Pair returned by the most recent user() call: its assistant-reply turn
\* is the last one in paths
ReplyTurns(c) ==
  {i \in 1..Len(c.paths) : c.paths[i].process.label = "assistant-reply"}
LatestUserPair(c) ==
  LET i == CHOOSE k \in ReplyTurns(c) : \A j \in ReplyTurns(c) : j <= k
  IN Pair(c.paths[i].fromId, c.paths[i].toId, c.paths[i].id)

\* C14: after any sequence of user() and system() calls with at least one
\* user() call, lastPair() returns the initiator node, responder placeholder
\* and assistant-reply turn of the most recent user() call; it returns nothing
\* when no turn exists.
C14_LastPairIsLatestUserPair ==
  /\ convo.paths = <<>> => lastPair(Graph) = NoPair
  /\ (\E i \in 1..Len(log) : log[i] = "user") =>
       lastPair(Graph) = LatestUserPair(convo)

\* the conversation after the step
GraphAfter == [c |-> convo', h |-> heap']

\* C15: userAsync never rejects and always returns its pair with a terminal
\* turn: when the callback returns a string or {reply, info} the responder
\* content is that reply, the responder is ready and the turn is done; when
\* it throws or rejects the responder is error, the turn is error and its
\* last step is an 'error' step whose info.error is the message.
C15_FulfilPost(pair, out) ==
  /\ lastOp' = Returned("userAsync:return", pair.user, pair.system, pair.path)
  /\ pair \notin awaiting'
  /\ heap'[pair.system].content.present
  /\ heap'[pair.system].content.message = out.reply
  /\ heap'[pair.system].status = "ready"
  /\ ProcessOf(GraphAfter, pair).status = "done"

C15_CatchPost(pair, e) ==
  /\ lastOp' = Returned("userAsync:caught", pair.user, pair.system, pair.path)
  /\ pair \notin awaiting'
  /\ heap'[pair.system].status = "error"
  /\ ProcessOf(GraphAfter, pair).status = "error"
  /\ LastStep(ProcessOf(GraphAfter, pair)).name = "error"
  /\ LastStep(ProcessOf(GraphAfter, pair)).info.present
  /\ LastStep(ProcessOf(GraphAfter, pair)).info.map["error"] = e

C15_UserAsyncSettles ==
  [][/\ \A pair \in awaiting, out \in AsyncOutputs :
         UserAsyncFulfilWith(pair, out) => C15_FulfilPost(pair, out)
     /\ \A pair \in awaiting, e \in ErrorMessages :
         UserAsyncCatchWith(pair, e) => C15_CatchPost(pair, e)]_vars

\* a userAsync() whose pair was failed while fn ran, and then fulfilled
C15_Witness ==
  /\ lastOp.op = "userAsync:return"
  /\ heap[lastOp.system].status = "ready"
  /\ LET p == ProcessOf(Graph, Pair(lastOp.user, lastOp.system, lastOp.path))
     IN /\ p.status = "done"
        /\ \E i \in 1..Len(p.steps) : p.steps[i].name = "error"

\* C16: after failAssistant(pair, errorInfo?) the responder node is error in
\* every case; a node without content now carries the default message, a
\* node with content keeps it; the turn is error with endedAt set; with
\* errorInfo the last step is an 'error' step, ok = false, carrying errorInfo.
C16_FailPost(pair, errorInfo) ==
  /\ heap'[pair.system].status = "error"
  /\ IF heap[pair.system].content.present
       THEN heap'[pair.system].content = heap[pair.system].content
       ELSE /\ heap'[pair.system].content.present
            /\ heap'[pair.system].content.message = DefaultErrorMessage
  /\ ProcessOf(GraphAfter, pair).status = "error"
  /\ ProcessOf(GraphAfter, pair).endedAt # Undefined
  /\ errorInfo.present =>
       /\ LastStep(ProcessOf(GraphAfter, pair)).name = "error"
       /\ LastStep(ProcessOf(GraphAfter, pair)).ok = "false"
       /\ LastStep(ProcessOf(GraphAfter, pair)).info = errorInfo

C16_FailMarksError ==
  [][\A pair \in KnownPairs(Graph), errorInfo \in ExtraArgs :
       FailAssistantWith(pair, errorInfo) => C16_FailPost(pair, errorInfo)]_vars

\* a resolved pair failed afterwards: the reply stays, the node is error
C16_Witness ==
  /\ lastOp.op = "failAssistant"
  /\ heap[lastOp.system].status = "error"
  /\ heap[lastOp.system].content.message \in Replies
  /\ LET p == ProcessOf(Graph, Pair(lastOp.user, lastOp.system, lastOp.path))
     IN p.status = "error" /\ p.steps # <<>> /\ LastStep(p).name = "error"

\* C17: after resolveAssistant(pair, reply, info?) the responder node's
\* message is reply and it is ready, the turn is done with endedAt set and no
\* open step; when info is supplied and a step was open, that step is closed
\* with ok = true and info merged into it.
C17_ResolvePost(pair, reply, info) ==
  LET old == ProcessOf(Graph, pair)
      new == ProcessOf(GraphAfter, pair)
  IN /\ heap'[pair.system].content.present
     /\ heap'[pair.system].content.message = reply
     /\ heap'[pair.system].status = "ready"
     /\ new.status = "done"
     /\ new.endedAt # Undefined
     /\ OpenSteps(new) = {}
     /\ Len(new.steps) = Len(old.steps)
     /\ info.present =>
          \A i \in OpenSteps(old) :
            /\ new.steps[i].ok = "true"
            /\ new.steps[i].info.present
            /\ new.steps[i].info.map = MergeInfo(old.steps[i].info.map, info.map)

C17_ResolveCloses ==
  [][\A pair \in KnownPairs(Graph), reply \in Replies, info \in ExtraArgs :
       ResolveAssistantWith(pair, reply, info) =>
         C17_ResolvePost(pair, reply, info)]_vars

C17_Witness ==
  /\ lastOp.op = "resolveAssistant"
  /\ heap[lastOp.system].status = "ready"
  /\ LET p == ProcessOf(Graph, Pair(lastOp.user, lastOp.system, lastOp.path))
     IN /\ p.status = "done"
        /\ Len(p.steps) = 1
        /\ p.steps[1].name = "work:begin"
        /\ p.steps[1].ok = "true"
        /\ p.steps[1].info.present
        /\ p.steps[1].info.map["k"] = "2"

\* the responder placeholders: the nodes user() paired with an initiator node
Placeholders(c) == {c.paths[i].toId : i \in ReplyTurns(c)}
Untouched(n) == n.status = "notStarted" /\ ~n.content.present

\* C18: in every graph reached through system(), user(), userQuick(),
\* userAsync(), resolveAssistant() and failAssistant() a node is ready only
\* if it has content, an initiator node is ready with content from creation,
\* and the placeholder user() creates is notStarted without content until it
\* is resolved or failed.
C18_NodeStatus ==
  \A id \in DOMAIN heap :
    /\ heap[id].status = "ready" => heap[id].content.present
    /\ heap[id].type = "user" =>
         heap[id].status = "ready" /\ heap[id].content.present

C18_PlaceholderStep ==
  \A id \in Placeholders(convo') :
    /\ (id \notin DOMAIN heap /\ lastOp'.op \in {"user", "userAsync:await"})
         => Untouched(heap'[id])
    /\ (id \in DOMAIN heap /\ Untouched(heap[id]) /\ ~Untouched(heap'[id]))
         => /\ lastOp'.system = id
            /\ lastOp'.op \in {"resolveAssistant", "failAssistant",
                                "userAsync:return", "userAsync:caught"}

C18_NodesReadyOnlyWithContent ==
  [][C18_NodeStatus' /\ C18_PlaceholderStep]_vars

C18_Witness ==
  /\ \E id \in Placeholders(convo) : Untouched(heap[id])
  /\ \E id \in Placeholders(convo) :
       /\ heap[id].status = "error"
       /\ heap[id].content.message = DefaultErrorMessage
  /\ \E id \in DOMAIN heap : heap[id].type = "user"

\* the conversation of a rebuilt state is what the whole function returns for
\* the rows consumed
RebuiltIsWholeCall ==
  /\ rebuilt.format = "shape" =>
       Graph = rebuildConversationFromShape(rebuilt.rows, clock)
  /\ rebuilt.format = "transcript" =>
       Graph = rebuildConversationFromTranscript(rebuilt.rows, clock)

\* C13: after any sequence of system()/user() calls, and in any graph
\* returned by the rebuild functions, every turn's fromId and toId are ids
\* of nodes in byId, and byId holds exactly the ids of the elements of nodes.
C13_IndexMatchesNodes ==
  /\ convo.byId = {convo.nodes[i] : i \in 1..Len(convo.nodes)}
  /\ convo.byId = DOMAIN heap
  /\ \A i \in 1..Len(convo.paths) :
       /\ convo.paths[i].fromId \in convo.byId
       /\ convo.paths[i].toId \in convo.byId

\* a rebuilt graph: a standalone responder node and two pairs
C13_Witness ==
  /\ rebuilt.format # "none"
  /\ Len(convo.nodes) = 5
  /\ Len(convo.paths) = 2
  /\ Cardinality(convo.byId) = 5

\* C19: for any row list the graph a rebuild function returns has tail equal
\* to the last element of nodes, and chain() from head visits every element
\* of nodes in insertion order, as in a live-built graph.
C19_RebuiltChainIsNodes ==
  rebuilt.format # "none" =>
    /\ chain(Graph) = convo.nodes
    /\ convo.nodes # <<>> => convo.tail = convo.nodes[Len(convo.nodes)]

\* what each function takes for initiator content: the shape format a
\* non-empty user message, the transcript format any [text, timestamp] tuple
HasInitiator(format, row) ==
  IF format = "shape"
    THEN row.user.present /\ TruthyText(row.user.message)
    ELSE row.user.present
InitiatorRows ==
  {i \in 1..Len(rebuilt.rows) : HasInitiator(rebuilt.format, rebuilt.rows[i])}

\* C20: for any row list a rebuilt graph has exactly one turn per row with
\* initiator content, and every turn is an assistant-reply turn from an
\* initiator node to a responder node: no user-link or system-link turn.
C20_OneReplyTurnPerUserRow ==
  rebuilt.format # "none" =>
    /\ Len(convo.paths) = Cardinality(InitiatorRows)
    /\ \A i \in 1..Len(convo.paths) :
         /\ convo.paths[i].process.label = "assistant-reply"
         /\ heap[convo.paths[i].fromId].type = "user"
         /\ heap[convo.paths[i].toId].type = "system"
    /\ \A i, j \in 1..Len(convo.paths) :
         i # j => convo.paths[i].fromId # convo.paths[j].fromId

\* three rows: a responder-only row first, then two rows with a user message
C20_Witness ==
  /\ rebuilt.format # "none"
  /\ Len(rebuilt.rows) = 3
  /\ Cardinality(InitiatorRows) = 2
  /\ Len(convo.paths) = 2
  /\ Len(convo.nodes) = 5
  /\ heap[convo.nodes[1]].type = "system"

\* what each function takes for responder content
HasResponder(format, row) ==
  IF format = "shape"
    THEN row.system.present /\ TruthyText(row.system.message)
    ELSE row.system.present
RowsOf(format) == IF format = "shape" THEN ShapeRows ELSE TranscriptRows
RebuildWith(format, row) ==
  IF format = "shape" THEN RebuildShapeWith(row) ELSE RebuildTranscriptWith(row)
RebuildFormats == {"shape", "transcript"}
\* the steps of a process labelled 'rebuild'
RebuildSteps(p) == {k \in 1..Len(p.steps) : p.steps[k].name = "rebuild"}
\* the timestamp a side ends up with: its own, or the time of the call
GivenOr(timestamp, t) == IF Truthy(timestamp) THEN timestamp ELSE t
NewPathOf(c) == c.paths[Len(c.paths)]

\* C21: a row with both initiator and responder content, in either format,
\* adds two nodes and one turn; the turn is done, the nodes carry the row's
\* messages and timestamps, the turn's endedAt is the responder timestamp,
\* and the turn has exactly one 'rebuild' step, closed, running from the
\* initiator timestamp to the responder timestamp with ok true.
C21_BothSidesPost(row) ==
  /\ Len(convo'.nodes) = Len(convo.nodes) + 2
  /\ Len(convo'.paths) = Len(convo.paths) + 1
  /\ heap'[NewPathOf(convo').fromId].type = "user"
  /\ heap'[NewPathOf(convo').fromId].content.message = row.user.message
  /\ heap'[NewPathOf(convo').fromId].content.timestamp
       = GivenOr(row.user.timestamp, clock)
  /\ heap'[NewPathOf(convo').toId].type = "system"
  /\ heap'[NewPathOf(convo').toId].content.message = row.system.message
  /\ heap'[NewPathOf(convo').toId].content.timestamp
       = GivenOr(row.system.timestamp, clock)
  /\ {NewPathOf(convo').fromId, NewPathOf(convo').toId} \cap DOMAIN heap = {}
  /\ NewPathOf(convo').process.status = "done"
  /\ row.system.timestamp # Undefined =>
       NewPathOf(convo').process.endedAt = row.system.timestamp
  /\ Cardinality(RebuildSteps(NewPathOf(convo').process)) = 1
  /\ \A k \in RebuildSteps(NewPathOf(convo').process) :
       /\ NewPathOf(convo').process.steps[k].ok = "true"
       /\ row.user.timestamp # Undefined =>
            NewPathOf(convo').process.steps[k].startedAt = row.user.timestamp
       /\ row.system.timestamp # Undefined =>
            NewPathOf(convo').process.steps[k].endedAt = row.system.timestamp
       /\ NewPathOf(convo').process.steps[k].endedAt # Undefined
C21_BothSidesRow ==
  [][\A format \in RebuildFormats : \A row \in RowsOf(format) :
       (RebuildWith(format, row) /\ HasInitiator(format, row)
          /\ HasResponder(format, row))
         => C21_BothSidesPost(row)]_vars

\* a both-sides transcript row with its timestamps, after an earlier pair
C21_Witness ==
  /\ rebuilt.format = "transcript"
  /\ Len(rebuilt.rows) = 2
  /\ rebuilt.rows[2] = Row(Side("u", 10), Side("s", 20), "undefined")
  /\ Len(convo.paths) = 2
  /\ NewPathOf(convo).process.status = "done"
  /\ NewPathOf(convo).process.endedAt = 20
  /\ heap[NewPathOf(convo).toId].content.message = "s"

\* a row read as having both sides by its format, both timestamps given
TimedBothSides(format, row) ==
  /\ HasInitiator(format, row) /\ HasResponder(format, row)
  /\ Truthy(row.user.timestamp) /\ Truthy(row.system.timestamp)

\* the earlier of two timestamps
Earlier(a, b) == CHOOSE m \in {a, b} : m <= a /\ m <= b

\* C22: for a row with both contents the shape rebuild sets the turn's
\* startedAt to the earlier of the two timestamps, and the transcript
\* rebuild sets it to the initiator timestamp even when the responder
\* timestamp is earlier.
C22_StartedAtAsStated ==
  [][\A format \in RebuildFormats : \A row \in RowsOf(format) :
       (RebuildWith(format, row) /\ TimedBothSides(format, row))
         => NewPathOf(convo').process.startedAt
              = IF format = "shape"
                  THEN Earlier(row.user.timestamp, row.system.timestamp)
                  ELSE row.user.timestamp]_vars

\* C22 amended: the formats are the other way round. The shape rebuild sets
\* startedAt to the initiator timestamp even when the responder timestamp is
\* earlier; the transcript rebuild sets it to the earlier of the two.
C22_StartedAtByFormat ==
  [][\A format \in RebuildFormats : \A row \in RowsOf(format) :
       (RebuildWith(format, row) /\ TimedBothSides(format, row))
         => NewPathOf(convo').process.startedAt
              = IF format = "shape"
                  THEN row.user.timestamp
                  ELSE Earlier(row.user.timestamp, row.system.timestamp)]_vars

\* a transcript row whose responder timestamp is the earlier one
C22_Witness ==
  /\ rebuilt.format = "transcript"
  /\ Len(rebuilt.rows) = 1
  /\ rebuilt.rows[1] = Row(Side("u", 20), Side("s", 10), "undefined")
  /\ NewPathOf(convo).process.startedAt = 10
  /\ NewPathOf(convo).process.endedAt = 10

\* the status a user-only row declares for its turn
DeclaredStatus(format, row) ==
  IF format = "shape" /\ row.status # "undefined" THEN row.status ELSE "queued"

\* C23: a row with initiator content only adds an initiator node, an empty
\* responder placeholder and one turn whose startedAt is the row's initiator
\* timestamp and whose status is the one the row declares (queued when it
\* declares none, always queued in the transcript format); the turn's steps
\* hold exactly one 'rebuild' step, and it is open.
C23_UserOnlyPost(format, row) ==
  /\ Len(convo'.nodes) = Len(convo.nodes) + 2
  /\ Len(convo'.paths) = Len(convo.paths) + 1
  /\ {NewPathOf(convo').fromId, NewPathOf(convo').toId} \cap DOMAIN heap = {}
  /\ heap'[NewPathOf(convo').fromId].type = "user"
  /\ heap'[NewPathOf(convo').fromId].content.message = row.user.message
  /\ heap'[NewPathOf(convo').toId].type = "system"
  /\ Untouched(heap'[NewPathOf(convo').toId])
  /\ NewPathOf(convo').process.startedAt = GivenOr(row.user.timestamp, clock)
  /\ NewPathOf(convo').process.status = DeclaredStatus(format, row)
  /\ Cardinality(RebuildSteps(NewPathOf(convo').process)) = 1
  /\ \A k \in RebuildSteps(NewPathOf(convo').process) :
       /\ NewPathOf(convo').process.steps[k].endedAt = Undefined
       /\ NewPathOf(convo').process.steps[k].ok = "undefined"
C23_UserOnlyRow ==
  [][\A format \in RebuildFormats : \A row \in RowsOf(format) :
       (RebuildWith(format, row) /\ HasInitiator(format, row)
          /\ ~HasResponder(format, row))
         => C23_UserOnlyPost(format, row)]_vars

\* a shape row declaring its turn to be running
C23_Witness ==
  /\ rebuilt.format = "shape"
  /\ Len(rebuilt.rows) = 2
  /\ rebuilt.rows[2] = Row(Side("u", 10), NoSide, "running")
  /\ NewPathOf(convo).process.status = "running"
  /\ NewPathOf(convo).process.startedAt = 10
  /\ Untouched(heap[NewPathOf(convo).toId])
  /\ Cardinality(RebuildSteps(NewPathOf(convo).process)) = 1

\* the pair of the latest row with initiator content still waits for its
\* reply: its responder placeholder has no content
LastPairPending ==
  /\ rebuilt.lastPair # NoPair
  /\ Untouched(heap[rebuilt.lastPair.system])
ResponderOnly(format, row) ==
  ~HasInitiator(format, row) /\ HasResponder(format, row)

\* C24: a row with responder content only that follows a pending
\* initiator-only row adds no node and no turn; the pending pair's responder
\* node gets the row's message and timestamp, its turn becomes done with
\* startedAt = endedAt = the responder timestamp, and the turn has exactly
\* one 'rebuild' step, closed, with startedAt = endedAt = that timestamp and
\* ok true.
C24_FinishPost(row, sTs) ==
  /\ convo'.nodes = convo.nodes
  /\ Len(convo'.paths) = Len(convo.paths)
  /\ \A id \in DOMAIN heap \ {rebuilt.lastPair.system} : heap'[id] = heap[id]
  /\ heap'[rebuilt.lastPair.system].content.message = row.system.message
  /\ heap'[rebuilt.lastPair.system].content.timestamp = sTs
  /\ ProcessOf(GraphAfter, rebuilt.lastPair).status = "done"
  /\ ProcessOf(GraphAfter, rebuilt.lastPair).startedAt = sTs
  /\ ProcessOf(GraphAfter, rebuilt.lastPair).endedAt = sTs
  /\ Cardinality(RebuildSteps(ProcessOf(GraphAfter, rebuilt.lastPair))) = 1
  /\ \A k \in RebuildSteps(ProcessOf(GraphAfter, rebuilt.lastPair)) :
       /\ ProcessOf(GraphAfter, rebuilt.lastPair).steps[k].startedAt = sTs
       /\ ProcessOf(GraphAfter, rebuilt.lastPair).steps[k].endedAt = sTs
       /\ ProcessOf(GraphAfter, rebuilt.lastPair).steps[k].ok = "true"
C24_ResponderRowFinishesPending ==
  [][\A format \in RebuildFormats : \A row \in RowsOf(format) :
       (RebuildWith(format, row) /\ ResponderOnly(format, row)
          /\ LastPairPending)
         => C24_FinishPost(row, GivenOr(row.system.timestamp, clock))]_vars

\* a pending pair declared running, an empty row, then its reply
C24_Witness ==
  /\ rebuilt.format = "shape"
  /\ Len(rebuilt.rows) = 3
  /\ rebuilt.rows[1] = Row(Side("u", 10), NoSide, "running")
  /\ rebuilt.rows[3] = Row(NoSide, Side("s", 20), "undefined")
  /\ Len(convo.nodes) = 2
  /\ Len(convo.paths) = 1
  /\ NewPathOf(convo).process.status = "done"
  /\ NewPathOf(convo).process.startedAt = 20
  /\ heap[NewPathOf(convo).toId].content.message = "s"

\* C25: a row with responder content only is attached to the preceding pair
\* only if that pair is still pending; when the latest pair is already
\* complete, or there is no pair, the row appends a standalone responder
\* node and leaves the existing pairs unchanged.
C25_StandalonePost(row) ==
  /\ Len(convo'.nodes) = Len(convo.nodes) + 1
  /\ convo'.paths = convo.paths
  /\ \A id \in DOMAIN heap : heap'[id] = heap[id]
  /\ heap'[convo'.nodes[Len(convo'.nodes)]].type = "system"
  /\ heap'[convo'.nodes[Len(convo'.nodes)]].content.message
       = row.system.message
C25_ResponderRowOnlyFinishesPending ==
  [][\A format \in RebuildFormats : \A row \in RowsOf(format) :
       (RebuildWith(format, row) /\ ResponderOnly(format, row)
          /\ ~LastPairPending)
         => C25_StandalonePost(row)]_vars

CompleteRow(row) == row.user.present /\ row.system.present
UserOnlyRow(row) == row.user.present /\ ~row.system.present
SystemOnlyRow(row) == ~row.user.present /\ row.system.present
\* complete rows, and user-only rows each matched by a later system-only row
MatchedRows(rows) ==
  \A i \in 1..Len(rows) :
    \/ CompleteRow(rows[i])
    \/ /\ UserOnlyRow(rows[i])
       /\ \E j \in (i + 1)..Len(rows) : SystemOnlyRow(rows[j])
    \/ /\ SystemOnlyRow(rows[i])
       /\ \E j \in 1..(i - 1) : UserOnlyRow(rows[j])

\* C26: for a list made only of complete rows and of user-only rows each
\* matched by a later system-only row, dumping the graph rebuilt from the
\* list gives the list back.
C26_RoundTripAsStated ==
  (rebuilt.format = "transcript" /\ MatchedRows(rebuilt.rows))
    => dumpTranscript(Graph) = rebuilt.rows

\* complete rows, and user-only rows directly followed by their system-only
\* row; every message non-empty
NonEmptySides(row) ==
  /\ row.user.present => TruthyText(row.user.message)
  /\ row.system.present => TruthyText(row.system.message)
CoupledRows(rows) ==
  \A i \in 1..Len(rows) :
    /\ NonEmptySides(rows[i])
    /\ \/ CompleteRow(rows[i])
       \/ UserOnlyRow(rows[i]) /\ i < Len(rows) /\ SystemOnlyRow(rows[i + 1])
       \/ SystemOnlyRow(rows[i]) /\ i > 1 /\ UserOnlyRow(rows[i - 1])
\* each user-only row and the system-only row after it as one complete row
RECURSIVE MergeCouples(_)
MergeCouples(rows) ==
  IF rows = <<>> THEN <<>>
  ELSE IF Len(rows) >= 2 /\ UserOnlyRow(rows[1]) /\ SystemOnlyRow(rows[2])
    THEN <<Row(rows[1].user, rows[2].system, "undefined")>>
           \o MergeCouples(Tail(Tail(rows)))
  ELSE <<Head(rows)>> \o MergeCouples(Tail(rows))

\* C26 amended: the dump has one row per pair, so a user-only row and the
\* system-only row that follows it come back merged into one complete row;
\* for a list of complete rows and such couples, all messages non-empty,
\* the dump of the rebuilt graph is the list with every couple merged, and
\* it is the list itself when all its rows are complete.
C26_RoundTripMergesCouples ==
  (rebuilt.format = "transcript" /\ CoupledRows(rebuilt.rows))
    => /\ dumpTranscript(Graph) = MergeCouples(rebuilt.rows)
       /\ (\A i \in 1..Len(rebuilt.rows) : CompleteRow(rebuilt.rows[i]))
            => dumpTranscript(Graph) = rebuilt.rows

\* a complete row, then a user-only row and its system-only row
C26_Witness ==
  /\ rebuilt.format = "transcript"
  /\ rebuilt.rows = <<Row(Side("u", 10), Side("s", 20), "undefined"),
                      Row(Side("u", 20), NoSide, "undefined"),
                      Row(NoSide, Side("s", 20), "undefined")>>
  /\ dumpTranscript(Graph)
       = <<Row(Side("u", 10), Side("s", 20), "undefined"),
           Row(Side("u", 20), Side("s", 20), "undefined")>>

\* the dump of the graph rebuilt from a dump
DumpAgain(d, t) == dumpTranscript(rebuildConversationFromTranscript(d, t))

\* C27: for every transcript row list, rows with empty-string messages,
\* responder-only rows and empty rows included, dumping the rebuilt graph is
\* idempotent: rebuilding from the dump and dumping again gives the same dump.
C27_DumpIsIdempotent ==
  rebuilt.format = "transcript" =>
    DumpAgain(dumpTranscript(Graph), clock) = dumpTranscript(Graph)

\* a row neither side of which the format reads as content
EmptyRow(format, row) == ~HasInitiator(format, row) /\ ~HasResponder(format, row)
RECURSIVE WithoutEmptyRows(_, _)
WithoutEmptyRows(format, rows) ==
  IF rows = <<>> THEN <<>>
  ELSE IF EmptyRow(format, Head(rows))
    THEN WithoutEmptyRows(format, Tail(rows))
  ELSE <<Head(rows)>> \o WithoutEmptyRows(format, Tail(rows))
RebuildOf(format, rows, t) ==
  IF format = "shape" THEN rebuildConversationFromShape(rows, t)
  ELSE rebuildConversationFromTranscript(rows, t)
\* a graph without the per-step info, where the row index is recorded
StatusOf(path) ==
  [fromId |-> path.fromId, toId |-> path.toId,
   status |-> path.process.status, startedAt |-> path.process.startedAt,
   endedAt |-> path.process.endedAt, steps |-> Len(path.process.steps)]
WithoutStepInfo(g) ==
  [nodes |-> g.c.nodes, h |-> g.h,
   paths |-> [i \in 1..Len(g.c.paths) |-> StatusOf(g.c.paths[i])]]

\* C28: rows with neither initiator nor responder content, put anywhere in
\* a row list, change neither the number of nodes, nor the number of turns,
\* nor the messages and timestamps of the nodes, nor the statuses of the
\* turns of the rebuilt graph: it is the graph of the list without them.
C28_EmptyRowsChangeNothing ==
  rebuilt.format # "none" =>
    WithoutStepInfo(Graph)
      = WithoutStepInfo(
          RebuildOf(rebuilt.format,
                    WithoutEmptyRows(rebuilt.format, rebuilt.rows), clock))

\* an empty row between a user-only row and the row with its reply
C28_Witness ==
  /\ rebuilt.format = "transcript"
  /\ Len(rebuilt.rows) = 3
  /\ UserOnlyRow(rebuilt.rows[1])
  /\ EmptyRow("transcript", rebuilt.rows[2])
  /\ SystemOnlyRow(rebuilt.rows[3])
  /\ Len(convo.nodes) = 2
  /\ Len(convo.paths) = 1
  /\ convo.paths[1].process.status = "done"

\* the pair sendText created for the i-th request sent
SentPair(i) ==
  LET k == CHOOSE k \in 1..Len(convo.paths) :
             /\ convo.paths[k].fromId = sent[i].messageId
             /\ convo.paths[k].process.label = "assistant-reply"
  IN Pair(convo.paths[k].fromId, convo.paths[k].toId, convo.paths[k].id)
\* the requests sent with requestId = the id of their pair's path
CorrelatedRequests ==
  {i \in 1..Len(sent) : sent[i].requestId = SentPair(i).path}
\* a handler changed the given pair's responder node and turn, nothing else
AppliedTo(pair) ==
  /\ \A id \in DOMAIN heap \ {pair.system} : heap'[id] = heap[id]
  /\ \A k \in 1..Len(convo.paths) :
       convo.paths[k].id # pair.path => convo'.paths[k] = convo.paths[k]
  /\ heap'[pair.system].content.present
  /\ ProcessOf(GraphAfter, pair).status \in {"running", "done", "error"}
\* the socket delivers an event that carries the given requestId
Answers(requestId) ==
  \/ \E e \in AITokens : e.requestId = requestId /\ OnAITokenWith(e)
  \/ \E e \in AIMessages : e.requestId = requestId /\ OnAIMessageWith(e)
  \/ \E e \in AIErrors : e.requestId = requestId /\ OnAIErrorWith(e)

\* C29: ChatSDK applies a server event to the turn it belongs to: with two
\* sendText calls in flight, each sent with requestId = its path id, an
\* ai:token, ai:message or ai:error event carrying the requestId of the
\* first changes the first pair's responder node and turn, not the second's.
C29_EventsGoToTheirPair ==
  [][\A i \in CorrelatedRequests :
       Answers(sent[i].requestId) => AppliedTo(SentPair(i))]_vars

\* what the listeners got since the first sendText created its pair
SinceSend(em) ==
  IF \E i \in 1..Len(em) : em[i].event = "pair:created"
    THEN SubSeq(em,
                CHOOSE i \in 1..Len(em) :
                  /\ em[i].event = "pair:created"
                  /\ \A j \in 1..(i - 1) : em[j].event # "pair:created",
                Len(em))
    ELSE <<>>
IsTokenEvent(x) == x.event = "ai:token"
TokenEvents(em) == SelectSeq(SinceSend(em), IsTokenEvent)
\* only tokens have answered the request so far
OnlyTokens(em) ==
  \A i \in 1..Len(SinceSend(em)) :
    SinceSend(em)[i].event \notin {"ai:message", "error"}
\* t1 + ... + tk for the first k token events
RECURSIVE Concatenation(_, _)
Concatenation(tokens, k) ==
  IF k = 0 THEN ""
  ELSE Concatenation(tokens, k - 1) \o TokenText(tokens[k].text)

\* C30: with a single sendText pair in flight, after the token events
\* t1..tk, delivered in that order, the responder content and the
\* cumulative field of the k-th 'ai:token' event both equal t1+...+tk and
\* the turn is running; when the final message then arrives the responder
\* content is exactly the final text and the turn is done.
C30_TokenPost ==
  /\ heap'[SentPair(1).system].content.message
       = Concatenation(TokenEvents(emitted'), Len(TokenEvents(emitted')))
  /\ \A k \in 1..Len(TokenEvents(emitted')) :
       TokenEvents(emitted')[k].cumulative
         = Concatenation(TokenEvents(emitted'), k)
  /\ Len(TokenEvents(emitted')) = Len(TokenEvents(emitted)) + 1
  /\ ProcessOf(GraphAfter, SentPair(1)).status = "running"
C30_FinalPost(e) ==
  /\ heap'[SentPair(1).system].content.message = e.text
  /\ ProcessOf(GraphAfter, SentPair(1)).status = "done"
C30_StreamThenFinal ==
  [][(Len(sent) = 1 /\ OnlyTokens(emitted))
       => /\ (\E e \in AITokens : OnAITokenWith(e)) => C30_TokenPost
          /\ \A e \in AIMessages : OnAIMessageWith(e) => C30_FinalPost(e)]_vars

\* tokens "b" and "a" streamed, then the final message "ab"
C30_Witness ==
  /\ Len(sent) = 1
  /\ Len(TokenEvents(emitted)) = 2
  /\ TokenEvents(emitted)[1].cumulative = "b"
  /\ TokenEvents(emitted)[2].cumulative = "ba"
  /\ emitted[Len(emitted) - 2].event = "ai:message"
  /\ heap[SentPair(1).system].content.message = "ab"
  /\ ProcessOf(Graph, SentPair(1)).status = "done"

\* C33: in every state reached by turn operations (step() or
\* beginAssistantWork() after done()/error() included) and in every graph
\* the rebuild functions return (initiator-only rows declared done or error
\* included), a turn whose status is done or error has no open step.
C33_TerminalTurnHasNoOpenStep ==
  /\ Terminal(process) => OpenSteps(process) = {}
  /\ \A i \in 1..Len(convo.paths) :
       Terminal(convo.paths[i].process)
         => OpenSteps(convo.paths[i].process) = {}

\* the callback of the pair's userAsync() call is still suspended: the turn
\* is running and its 'work:begin' step is open
Suspended(g, pair) ==
  /\ ProcessOf(g, pair).status = "running"
  /\ ProcessOf(g, pair).steps # <<>>
  /\ LastStep(ProcessOf(g, pair)).name = "work:begin"
  /\ LastStep(ProcessOf(g, pair)).endedAt = Undefined
  /\ ~g.h[pair.system].content.present
\* a settling call wrote to its own pair's responder node and turn only
OnlyOwnPair(pair) ==
  /\ \A id \in DOMAIN heap \ {pair.system} : heap'[id] = heap[id]
  /\ \A k \in 1..Len(convo.paths) :
       convo.paths[k].id # pair.path => convo'.paths[k] = convo.paths[k]

\* C37: userAsync calls on one conversation whose callbacks are suspended
\* at the same time and complete in either order each resolve or fail only
\* the pair they created: the responder's content is the own callback's
\* reply, the turn ends done (or error when the callback fails), and a
\* turn whose callback is still suspended stays running with its
\* 'work:begin' step open.
C37_EachCallSettlesItsOwnPair ==
  [][/\ \A pair \in awaiting, out \in CallbackOutputs :
         UserAsyncFulfilWith(pair, out)
           => /\ heap'[pair.system].content.message = out.reply
              /\ ProcessOf(GraphAfter, pair).status = "done"
              /\ OpenSteps(ProcessOf(GraphAfter, pair)) = {}
              /\ OnlyOwnPair(pair)
     /\ \A pair \in awaiting, e \in ErrorMessages :
         UserAsyncCatchWith(pair, e)
           => /\ heap'[pair.system].status = "error"
              /\ ProcessOf(GraphAfter, pair).status = "error"
              /\ OpenSteps(ProcessOf(GraphAfter, pair)) = {}
              /\ OnlyOwnPair(pair)
     /\ \A pair \in awaiting' : Suspended(GraphAfter, pair)]_vars

\* two calls suspended together; the second settled first, with "r2", then
\* the first with "r1"
C37_Witness ==
  /\ awaiting = {}
  /\ log = <<"userAsync", "userAsync">>
  /\ lastOp = Returned("userAsync:return", 1, 3, 4)
  /\ heap[3].content.message = "r1"
  /\ heap[7].content.message = "r2"
  /\ ProcessOf(Graph, Pair(1, 3, 4)).status = "done"
  /\ ProcessOf(Graph, Pair(5, 7, 8)).status = "done"

\* the moderator pipeline given to the constructor blocks the text
Blocks(m, text) ==
  m.present /\ RunPipeline(m.pipeline, 1, text).action = "block"

\* C38: when ChatSDK is constructed with a moderator pipeline and a step
\* returns action 'block' for the text, sendText emits one 'error' event
\* with code 'blocked', returns null, adds no node or turn to the
\* conversation and does not call socket.sendMessage.
C38_BlockedTextIsNotSent ==
  [][\A text \in Texts, requestId \in ExtraRequestIds :
       (SendTextWith(text, requestId) /\ Blocks(moderator, text))
         => /\ emitted' = Append(emitted,
                                 Emitted("error", Undefined, "blocked",
                                         NoMessage))
            /\ lastOp' = Returned("sendText", Undefined, Undefined, Undefined)
            /\ convo' = convo
            /\ heap' = heap
            /\ sent' = sent]_vars

\* one request was sent and no broadcast has come in: lastPair() is its pair
OnlyTheSentPair ==
  /\ Len(sent) = 1
  /\ \A i \in 1..Len(log) : log[i] # "onChatMessage"
\* the final message has been applied to the pair: its turn is done and its
\* responder content is the text of the latest 'ai:message'
FinalApplied(pair) ==
  /\ ProcessOf(Graph, pair).status = "done"
  /\ \E i \in 1..Len(emitted) :
       /\ emitted[i].event = "ai:message"
       /\ \A j \in (i + 1)..Len(emitted) : emitted[j].event # "ai:message"
       /\ heap[pair.system].content.message = emitted[i].text

\* C34: events that arrive out of order do not corrupt a finished turn:
\* once the final message has been applied to a pair, a later ai:token or
\* ai:processing event leaves the responder's content equal to the final
\* text and the turn's status done.
C34_LateEventsLeaveFinishedTurn ==
  [][(/\ OnlyTheSentPair
      /\ FinalApplied(SentPair(1))
      /\ \/ \E e \in AITokens : OnAITokenWith(e)
         \/ \E e \in AIProcessings : OnAIProcessingWith(e))
       => /\ heap'[SentPair(1).system].content.message
               = heap[SentPair(1).system].content.message
          /\ ProcessOf(GraphAfter, SentPair(1)).status = "done"]_vars

\* a broadcast came in after the one request was sent
BroadcastAfterSend ==
  /\ Len(sent) = 1
  /\ \E i, j \in 1..Len(log) :
       i < j /\ log[i] = "user" /\ log[j] = "onChatMessage"

\* C35: if a chat:message broadcast is delivered between a sendText and the
\* ai:token / ai:message / ai:error events answering it, those events are
\* still applied to the sendText pair: its responder node receives the
\* text, its turn reaches done or error, and the broadcast node's content
\* and the link turn created for it are not modified.
C35_BroadcastDoesNotDivertAnswers ==
  [][(/\ BroadcastAfterSend
      /\ \/ \E e \in AITokens : OnAITokenWith(e)
         \/ \E e \in AIMessages : OnAIMessageWith(e)
         \/ \E e \in AIErrors : OnAIErrorWith(e))
       => /\ AppliedTo(SentPair(1))
          /\ (\E e \in AIMessages : OnAIMessageWith(e))
               => ProcessOf(GraphAfter, SentPair(1)).status = "done"
          /\ (\E e \in AIErrors : OnAIErrorWith(e))
               => ProcessOf(GraphAfter, SentPair(1)).status = "error"]_vars

\* C36: every 'status:change' event ChatSDK emits is truthful: its from is
\* the turn's status before the ai:processing event was handled and its to
\* is the turn's status after, whatever the status was before (a 'queued'
\* event while running, any event after done or error).
C36_StatusChangeIsTruthful ==
  [][\A e \in AIProcessings :
       (OnAIProcessingWith(e) /\ lastPair(Graph) # NoPair)
         => /\ emitted'[Len(emitted') - 1].event = "status:change"
            /\ emitted'[Len(emitted') - 1].id = lastPair(Graph).path
            /\ emitted'[Len(emitted') - 1].from
                 = ProcessOf(Graph, lastPair(Graph)).status
            /\ emitted'[Len(emitted') - 1].to
                 = ProcessOf(GraphAfter, lastPair(Graph)).status]_vars

\* the listeners were called with the event during the last step
Delivered(event) == \E i \in 1..Len(observer.out) : observer.out[i] = event

DeliveredNext(event) ==
  \E i \in 1..Len(observer'.out) : observer'.out[i] = event

\* the typingStart and typingStop events of a step, in order, continue an
\* alternation whose last event so far was `edge`
RECURSIVE AlternatesFrom(_, _)
AlternatesFrom(edge, edges) ==
  \/ edges = <<>>
  \/ /\ (edges[1] = "typingStart") <=> (edge \in {"none", "typingStop"})
     /\ AlternatesFrom(edges[1], Tail(edges))

\* C31: TypingStart and TypingStop strictly alternate, beginning with
\* TypingStart, under every interleaving of focus, blur, input, bump(),
\* composition, selection-change and timer events: TypingStart is emitted
\* only by an input or bump() that is the first since construction or since
\* the last TypingStop, and TypingStop only while a TypingStart is unmatched.
C31_StartAndStopAlternate ==
  [][/\ AlternatesFrom(typing.lastEdge, Edges(observer'.out))
     /\ DeliveredNext("typingStart") => typing'.op \in {"input", "bump"}]_vars

\* the stop timer ended a typing session that a selection change had
\* refreshed
C31_Witness ==
  /\ typing.op = "stop"
  /\ Delivered("typingStop")
  /\ typing.sinceSelection # Undefined

\* a typingStart has been delivered and no typingStop after it
Unmatched == typing.lastEdge = "typingStart"

\* the timer held in stopTimerId is due after stopDelay ticks
StopTimerArmed(o) ==
  \E k \in 1..Len(o.timers) :
    /\ o.timers[k].id = o.stopTimerId
    /\ o.timers[k].kind = "stop"
    /\ o.timers[k].left = o.options.stopDelay

C39_SelectionChangeKeepsTimersFresh ==
  [][((PauseTimerFires \/ StopTimerFires)
        /\ typing.sinceSelection # Undefined)
       => /\ DeliveredNext("typingStop")
               => typing.sinceSelection >= observer.options.stopDelay
          /\ DeliveredNext("typingPause")
               => typing.sinceSelection >= observer.options.pauseDelay]_vars

\* no disconnect() call has taken the handlers off the socket
NeverClosed == ~service.closed

\* C40: the handlers passed to SocketService at construction are on the
\* socket whether the service connected by itself or connect() was called
\* later: a server event whose name has an initial handler invokes it.
C40_InitialHandlersAreInvoked ==
  [][\A event \in ServiceEvents :
       (ServerEventWith(event) /\ event \in service.given /\ NeverClosed)
         => event \in service'.invoked]_vars

====
